---- MODULE Spec2Model ----
(***************************************************************************)
(* Batch remediation orchestrator (batch-orchestrator/app).                *)
(*                                                                         *)
(* The module holds several specifications over one set of variables:      *)
(*   SpecSE      StateEngine.transition under arbitrary calls              *)
(*   SpecEngine  RemediationEngine.remediate for one solution              *)
(*   SpecBatch   BatchExecutor / OEBatchExecutor.execute_batch + cancel()  *)
(*   SpecSched   _scheduler_loop, /execute, /scheduler/start, /stop        *)
(*   SpecChecker ScheduleChecker.is_ready                                  *)
(* A specification leaves the variables of the other parts at their idle   *)
(* values.                                                                 *)
(***************************************************************************)
EXTENDS Integers, Sequences, FiniteSets, TLC

None == "None"

\* Python's None where the other values are integers
NoInt == -1

Min(a, b) == IF a <= b THEN a ELSE b

Last(s) == s[Len(s)]

(***************************************************************************)
(* models/schemas.py: the two automata                                     *)
(***************************************************************************)
RemediationState ==
    {"DETECTED", "VALIDATING", "VALIDATED", "DELETING_SM_DATA", "DELETE_FAILED",
     "MIGRATING", "MIGRATION_FAILED", "WAITING_CONFIRMATION", "CONFIRMED",
     "POST_UPDATE", "POST_UPDATE_FAILED", "COMPLETED", "SKIPPED", "FAILED"}

VALID_TRANSITIONS_NoTerminalEntry ==
    "DETECTED" :> {"VALIDATING"}
 @@ "VALIDATING" :> {"VALIDATED", "SKIPPED", "FAILED"}
 @@ "VALIDATED" :> {"DELETING_SM_DATA"}
 @@ "DELETING_SM_DATA" :> {"MIGRATING", "DELETE_FAILED"}
 @@ "DELETE_FAILED" :> {"FAILED"}
 @@ "MIGRATING" :> {"WAITING_CONFIRMATION", "MIGRATION_FAILED"}
 @@ "MIGRATION_FAILED" :> {"FAILED"}
 @@ "WAITING_CONFIRMATION" :> {"CONFIRMED", "MIGRATION_FAILED"}
 @@ "CONFIRMED" :> {"POST_UPDATE"}
 @@ "POST_UPDATE" :> {"COMPLETED", "POST_UPDATE_FAILED"}
 @@ "POST_UPDATE_FAILED" :> {"FAILED"}
 @@ "COMPLETED" :> {}
 @@ "SKIPPED" :> {"VALIDATING"}

VALID_TRANSITIONS ==
    "DETECTED" :> {"VALIDATING"}
 @@ "VALIDATING" :> {"VALIDATED", "SKIPPED", "FAILED"}
 @@ "VALIDATED" :> {"DELETING_SM_DATA"}
 @@ "DELETING_SM_DATA" :> {"MIGRATING", "DELETE_FAILED"}
 @@ "DELETE_FAILED" :> {"FAILED"}
 @@ "MIGRATING" :> {"WAITING_CONFIRMATION", "MIGRATION_FAILED"}
 @@ "MIGRATION_FAILED" :> {"FAILED"}
 @@ "WAITING_CONFIRMATION" :> {"CONFIRMED", "MIGRATION_FAILED"}
 @@ "CONFIRMED" :> {"POST_UPDATE"}
 @@ "POST_UPDATE" :> {"COMPLETED", "POST_UPDATE_FAILED"}
 @@ "POST_UPDATE_FAILED" :> {"FAILED"}
 @@ "COMPLETED" :> {}
 @@ "SKIPPED" :> {}
 @@ "FAILED" :> {}

TERMINAL_STATES == {"COMPLETED", "SKIPPED", "FAILED"}

OERemediationState ==
    {"DETECTED", "VALIDATING", "VALIDATED", "NOT_IMPACTED", "ANALYZING",
     "ATTACHMENT_UPDATED", "REMEDIATION_STARTED", "REMEDIATED", "SKIPPED", "FAILED"}

OE_VALID_TRANSITIONS ==
    "DETECTED" :> {"VALIDATING"}
 @@ "VALIDATING" :> {"VALIDATED", "SKIPPED", "FAILED"}
 @@ "VALIDATED" :> {"ANALYZING", "NOT_IMPACTED"}
 @@ "ANALYZING" :> {"ATTACHMENT_UPDATED", "NOT_IMPACTED", "FAILED"}
 @@ "NOT_IMPACTED" :> {}
 @@ "ATTACHMENT_UPDATED" :> {"REMEDIATION_STARTED", "FAILED"}
 @@ "REMEDIATION_STARTED" :> {"REMEDIATED", "FAILED"}
 @@ "REMEDIATED" :> {}
 @@ "SKIPPED" :> {}
 @@ "FAILED" :> {}

OE_TERMINAL_STATES == {"REMEDIATED", "NOT_IMPACTED", "SKIPPED", "FAILED"}

(***************************************************************************)
(* services/state_engine.py: StateEngine                                   *)
(* An engine is a record of the three mutable fields.                      *)
(***************************************************************************)
Reasons == {"r1", "r2"}

\* StateEngine.__init__
NewStateEngine ==
    [current_state |-> "DETECTED", state_history |-> <<>>, error |-> None]

\* VALID_TRANSITIONS.get(current, [])
ValidTargets(current) ==
    IF current \in DOMAIN VALID_TRANSITIONS THEN VALID_TRANSITIONS[current] ELSE {}

can_transition(e, target) == target \in ValidTargets(e.current_state)

\* transition() raises InvalidTransitionError(current, target)
TransitionRaises(e, target) == ~can_transition(e, target)

InvalidTransitionError(current, target) == [current |-> current, target |-> target]

transition_MutatesBeforeCheck(e, target, reason) ==
    [current_state |-> IF can_transition(e, target) THEN target ELSE e.current_state,
     state_history |-> Append(e.state_history, <<e.current_state, target, reason>>),
     error |-> IF target = "FAILED" THEN reason ELSE e.error]

\* the engine after transition(target, reason); unchanged when it raises
transition(e, target, reason) ==
    IF ~can_transition(e, target)
    THEN e
    ELSE [current_state |-> target,
          state_history |-> Append(e.state_history, <<e.current_state, target, reason>>),
          error |-> IF target = "FAILED" THEN reason ELSE e.error]

is_terminal(e) == e.current_state \in TERMINAL_STATES

VARIABLES
    se,         \* a StateEngine driven by arbitrary transition calls
    seCall      \* the last transition call on se and its outcome

seVars == <<se, seCall>>

NoCall ==
    [target |-> None, reason |-> None, raised |-> FALSE,
     exc |-> InvalidTransitionError(None, None), before |-> NewStateEngine]

SEIdle == se = NewStateEngine /\ seCall = NoCall

\* one call se.transition(target, reason)
SE_Transition ==
    \E target \in RemediationState, reason \in Reasons :
        /\ se' = transition(se, target, reason)
        /\ seCall' = [target |-> target,
                      reason |-> reason,
                      raised |-> TransitionRaises(se, target),
                      exc |-> IF TransitionRaises(se, target)
                              THEN InvalidTransitionError(se.current_state, target)
                              ELSE InvalidTransitionError(None, None),
                      before |-> se]


(***************************************************************************)
(* The tracking entity (BatchJob) as the runtime holds it, and the         *)
(* merge-style update_job. A call of update_job or update_service_problem  *)
(* that raises is caught and logged by the caller; it leaves the entity as *)
(* it was. escaped records whether an exception of an update_job call left *)
(* the caller's try block.                                                 *)
(***************************************************************************)
VARIABLE faulty     \* whether the update calls of this run can raise

envVars == <<faulty>>

Reliable == faulty = FALSE

\* an update call is served (ok) or raises
Oks == IF faulty THEN BOOLEAN ELSE {TRUE}

Fate_Uncaught(ok) == IF ok THEN "served" ELSE "escaped"

\* try: self.tmf.update_...(...) except Exception as e: logger.warning(...)
\* the call was served, or it raised and the exception was caught
Fate(ok) == IF ok THEN "served" ELSE "caught"

\* x_summary holds the summary last stored, as a sequence of length 0 or 1
NewJob ==
    [state |-> "pending", x_summary |-> <<>>, actualQuantity |-> NoInt,
     x_currentItemId |-> None, x_currentItemState |-> None, escaped |-> FALSE]

Merge(j, patch) ==
    [f \in DOMAIN j |-> IF f \in DOMAIN patch THEN patch[f] ELSE j[f]]

\* one update_job call with its outcome
Update(j, patch, ok) ==
    [(IF ok THEN Merge(j, patch) ELSE j) EXCEPT !.escaped = @ \/ Fate(ok) = "escaped"]

\* a sequence of update_job calls, oks[k] telling how the k-th ended
RECURSIVE UpdateAll(_, _, _)
UpdateAll(j, patches, oks) ==
    IF patches = <<>> THEN j
    ELSE UpdateAll(Update(j, Head(patches), Head(oks)), Tail(patches), Tail(oks))

(***************************************************************************)
(* services/remediation_engine.py                                          *)
(***************************************************************************)
MaxBaskets == 2

SENSITIVE_STAGES == {"Order Enrichment", "Submitted"}

MAX_AGE_DAYS == 60

BasketStages == {"Order Enrichment", "Submitted", "Closed Won"}

BasketAges == {MAX_AGE_DAYS - 1, MAX_AGE_DAYS}

Baskets == [basketStage : BasketStages, basketAgeInDays : BasketAges]

BasketLists == UNION {[1..n -> Baskets] : n \in 0..MaxBaskets}

\* the macdDetails of a validate response: absent/empty, a string that is not
\* JSON, JSON that is not an object, or an object
MacdDetails ==
    [kind : {"empty", "badjson", "notdict"}, macdBasketExists : {FALSE},
     nSolutionIds : {0}, basketDetails : {<<>>}]
    \cup
    [kind : {"dict"}, macdBasketExists : BOOLEAN, nSolutionIds : 0..1,
     basketDetails : BasketLists]

(***************************************************************************)
(* Python strings and JSON values. A string is the sequence of its         *)
(* characters; a JSON value is its type and the string str() makes of it.  *)
(***************************************************************************)
UpperCase ==
    <<"A", "B", "C", "D", "E", "F", "G", "H", "I", "J", "K", "L", "M", "N", "O", "P", "Q", "R", "S", "T", "U", "V", "W", "X", "Y", "Z">>

LowerCase ==
    <<"a", "b", "c", "d", "e", "f", "g", "h", "i", "j", "k", "l", "m", "n", "o", "p", "q", "r", "s", "t", "u", "v", "w", "x", "y", "z">>

LowerChar(c) ==
    IF \E i \in 1..Len(UpperCase) : UpperCase[i] = c
    THEN LowerCase[CHOOSE i \in 1..Len(UpperCase) : UpperCase[i] = c]
    ELSE c

\* str.lower()
lower(s) == [i \in 1..Len(s) |-> LowerChar(s[i])]

\* str.replace(" ", "")
NoSpaces(s) == SelectSeq(s, LAMBDA c : c # " ")

RECURSIVE lstrip(_)
lstrip(s) == IF s # <<>> /\ Head(s) = " " THEN lstrip(Tail(s)) ELSE s

RECURSIVE rstrip(_)
rstrip(s) == IF s # <<>> /\ s[Len(s)] = " " THEN rstrip(SubSeq(s, 1, Len(s) - 1)) ELSE s

\* str.strip()
strip(s) == rstrip(lstrip(s))

JStr(s) == [kind |-> "str", text |-> s]

JBool(b) == [kind |-> "bool", text |-> IF b THEN <<"T", "r", "u", "e">> ELSE <<"F", "a", "l", "s", "e">>]

JInt(n) == [kind |-> "int", text |-> <<<<"0", "1", "2", "3", "4", "5", "6", "7", "8", "9">>[n + 1]>>]

\* JSON null, Python None
JNull == [kind |-> "null", text |-> <<"N", "o", "n", "e">>]

\* a key that the dict does not have
Absent == [kind |-> "absent", text |-> <<>>]

\* dict.get(key, default)
Get(v, default) == IF v.kind = "absent" THEN default ELSE v

\* str(value)
str(v) == v.text

W_true == <<"t", "r", "u", "e">>

W_TRUE == <<"T", "R", "U", "E">>

W_yes == <<"y", "e", "s">>

W_1 == <<"1">>

W_false == <<"f", "a", "l", "s", "e">>

W_no == <<"n", "o">>

\* is_success(response), on the success field of the response
is_success(success) ==
    LET s == Get(success, JStr(<<>>)) IN
    IF s.kind = "bool" THEN s = JBool(TRUE)
    ELSE lower(str(s)) \in {W_true, W_1, W_yes}

SuccessValues ==
    {JBool(TRUE), JBool(FALSE), JStr(W_true), JStr(W_TRUE), JStr(W_1), JStr(W_yes),
     JStr(W_false), JStr(W_no), Absent}

should_skip_macd_IgnoresAge(macd) ==
    /\ macd.kind = "dict"
    /\ macd.macdBasketExists \/ macd.nSolutionIds > 0
    /\ \/ Len(macd.basketDetails) = 0
       \/ \E k \in 1..Len(macd.basketDetails) :
              macd.basketDetails[k].basketStage \in SENSITIVE_STAGES

\* should_skip_macd(info)[0]
should_skip_macd(macd) ==
    IF macd.kind # "dict" THEN FALSE
    ELSE IF ~(macd.macdBasketExists \/ macd.nSolutionIds > 0) THEN FALSE
    ELSE IF Len(macd.basketDetails) = 0 THEN TRUE
    ELSE IF \E k \in 1..Len(macd.basketDetails) :
                macd.basketDetails[k].basketStage \in SENSITIVE_STAGES THEN TRUE
    ELSE IF \E k \in 1..Len(macd.basketDetails) :
                macd.basketDetails[k].basketAgeInDays < MAX_AGE_DAYS THEN TRUE
    ELSE FALSE

NoMacd == [kind |-> "empty", macdBasketExists |-> FALSE, nSolutionIds |-> 0, basketDetails |-> <<>>]

\* validate_solution: raises, or returns info with a success field and macdDetails
\* (the code reads macdDetails only when success is true)
ValidateResponses ==
    [raise : {TRUE}, success : {Absent}, macd : {NoMacd}]
    \cup [raise : {FALSE}, success : {v \in SuccessValues : ~is_success(v)}, macd : {NoMacd}]
    \cup [raise : {FALSE}, success : {v \in SuccessValues : is_success(v)}, macd : MacdDetails]

\* delete_solution / migrate_solution: raises, or returns a success field
CallResponses == [raise : {TRUE}, success : {Absent}] \cup [raise : {FALSE}, success : SuccessValues]

PollStatuses == {"COMPLETED", "SUCCESS", "FAILED", "ERROR", "completed", "failed",
                 "IN_PROGRESS", "PENDING", "absent"}

PollResponses == [raise : {TRUE}, status : {"absent"}] \cup [raise : {FALSE}, status : PollStatuses]

\* status_resp.get("status", "").upper()
Upper(status) ==
    CASE status = "completed" -> "COMPLETED"
      [] status = "failed" -> "FAILED"
      [] status = "absent" -> ""
      [] OTHER -> status

\* post_update_solution: returns a body reporting success ("ok") or failure
\* ("fail"), or raises (a 404, or anything else)
PostUpdateResponses == {"ok", "fail", "raise_404", "raise_other"}

\* the call returned: the code never reads the body it returns (lines 366-373)
PostUpdateReturned(resp) == resp \in {"ok", "fail"}

VARIABLES
    epc,        \* where remediate() of the current item stands
    eng,        \* its StateEngine
    ecfg,       \* the polling parameters of the RemediationEngine
    ein,        \* the arguments of remediate()
    calls,      \* remote remediation operations invoked, in order
    steps,      \* result.steps
    eres,       \* the RemediationResult returned, NoResult until then
    poll,       \* _step_poll: elapsed, current_interval, total time slept
    spLog,      \* update_service_problem calls, in order
    vinfo,      \* what the validate call of the current item returned
    job         \* the tracking entity

engVars == <<epc, eng, ecfg, ein, calls, steps, eres, poll, spLog, vinfo>>

\* last: what the latest poll returned (its status, "absent" without one) or
\* "raise"
NoPoll ==
    [elapsed |-> 0, current_interval |-> 0, slept |-> 0, timed_out |-> FALSE, last |-> None]

NoInfo == [returned |-> FALSE, eligible |-> FALSE]

NoCfg == [initial_delay |-> 0, poll_interval |-> 0, max_interval |-> 0,
          backoff_factor |-> 0, max_duration |-> 0]

NoArgs == [solution_id |-> None, service_problem_id |-> None,
           skip_validation |-> FALSE, on_step |-> FALSE, job_id |-> None]

\* the value of eres while remediate() has not returned
NoResult ==
    [success |-> FALSE, failed_at |-> None, message |-> None,
     service_problem_updated |-> FALSE, final_state |-> None, error |-> None,
     state_history |-> <<>>]

EngIdle ==
    /\ epc = "idle" /\ eng = NewStateEngine /\ ecfg = NoCfg /\ ein = NoArgs
    /\ calls = <<>> /\ steps = <<>> /\ eres = NoResult /\ poll = NoPoll
    /\ spLog = <<>> /\ vinfo = NoInfo

\* MACD eligibility as the design states it (section 4.3), independent of the code
MacdExists(macd) ==
    macd.kind = "dict" /\ (macd.macdBasketExists \/ macd.nSolutionIds > 0)

Eligible(macd) ==
    \/ ~MacdExists(macd)
    \/ /\ Len(macd.basketDetails) > 0
       /\ \A k \in 1..Len(macd.basketDetails) :
              /\ macd.basketDetails[k].basketStage \notin {"Order Enrichment", "Submitted"}
              /\ macd.basketDetails[k].basketAgeInDays >= 60

StepResult(action, success, message, status) ==
    [action |-> action, success |-> success, message |-> message, status |-> status]

\* a sequence of transitions, stopping at the first that raises
RECURSIVE TransPath(_, _)
TransPath(e, path) ==
    IF path = <<>> THEN [eng |-> e, raised |-> FALSE]
    ELSE IF TransitionRaises(e, Head(path)[1]) THEN [eng |-> e, raised |-> TRUE]
    ELSE TransPath(transition(e, Head(path)[1], Head(path)[2]), Tail(path))

\* _notify -> on_step -> BatchExecutor._update_job({"x_currentItemState": ...})
state_map(action) ==
    CASE action = "VALIDATE" -> "VALIDATING"
      [] action = "DELETE" -> "DELETING_SM_DATA"
      [] action = "MIGRATE" -> "MIGRATING"
      [] action = "POLL" -> "WAITING_CONFIRMATION"
      [] action = "POST_UPDATE" -> "POST_UPDATE"

NotifyPatches(actions) ==
    [k \in 1..Len(actions) |-> [x_currentItemState |-> state_map(actions[k])]]

_notify(actions) ==
    IF ein.on_step /\ ein.job_id # None
    THEN \E oks \in [1..Len(actions) -> Oks] :
             job' = UpdateAll(job, NotifyPatches(actions), oks)
    ELSE UNCHANGED job

_update_sp_AlwaysRejected(status, remediation_state) ==
    IF ein.service_problem_id = None
    THEN UNCHANGED spLog
    ELSE \E ok \in Oks :
             spLog' = Append(spLog, [item |-> ein.solution_id,
                                     sp_id |-> ein.service_problem_id,
                                     status |-> "rejected", state |-> remediation_state,
                                     fate |-> Fate(ok)])

\* _update_sp: one update_service_problem call when an id was given (a call
\* that raises is caught and logged)
_update_sp(status, remediation_state) ==
    IF ein.service_problem_id = None
    THEN UNCHANGED spLog
    ELSE \E ok \in Oks :
             spLog' = Append(spLog, [item |-> ein.solution_id,
                                     sp_id |-> ein.service_problem_id,
                                     status |-> status, state |-> remediation_state,
                                     fate |-> Fate(ok)])

\* the common tail of every return of remediate()
Return(e, newSteps, success, failed_at, message, spStatus, spState) ==
    /\ eng' = e
    /\ steps' = newSteps
    /\ _update_sp(spStatus, spState)
    /\ eres' = [success |-> success, failed_at |-> failed_at, message |-> message,
                service_problem_updated |-> ein.service_problem_id # None,
                final_state |-> e.current_state, error |-> e.error,
                state_history |-> e.state_history]
    /\ epc' = "done"

\* except InvalidTransitionError (lines 392-400)
ReturnInvalid(e, newSteps) ==
    Return([e EXCEPT !.error = "Invalid transition"], newSteps, FALSE,
           e.current_state, "Invalid transition", "rejected", "FAILED")

\* a step that ends the item in FAILED through the given transitions
ReturnFailed(path, newSteps, failed_at, message) ==
    LET tp == TransPath(eng, path) IN
    IF tp.raised
    THEN ReturnInvalid(tp.eng, newSteps)
    ELSE Return(tp.eng, newSteps, FALSE, failed_at, message, "rejected", "FAILED")

\* a step that succeeded and leads to the next remote call
Continue(path, newSteps, next) ==
    LET tp == TransPath(eng, path) IN
    IF tp.raised
    THEN ReturnInvalid(tp.eng, newSteps)
    ELSE /\ eng' = tp.eng
         /\ steps' = newSteps
         /\ epc' = next
         /\ UNCHANGED <<eres, spLog>>

\* the success field of a response as the design normalises it (section 9)
Truthy(success) ==
    \/ success = JBool(TRUE)
    \/ success.kind = "str" /\ lower(success.text) \in {W_true, W_1, W_yes}

\* how a remote call ended, classified independently of the code:
\* "ok" (returned success), "fail" (returned failure), "raise"
Outcome(resp) == IF resp.raise THEN "raise" ELSE IF Truthy(resp.success) THEN "ok" ELSE "fail"

\* a poll: "ok" (migration confirmed), "fail" (migration failed), "pending", "raise"
PollOutcome(resp) ==
    IF resp.raise THEN "raise"
    ELSE IF resp.status \in {"COMPLETED", "SUCCESS", "completed"} THEN "ok"
    ELSE IF resp.status \in {"FAILED", "ERROR", "failed"} THEN "fail"
    ELSE "pending"

\* the log of remote calls with their outcomes; a run of consecutive polls of
\* one item is one entry holding the outcome of the latest poll
Call(op, outcome) ==
    LET c == [op |-> op, item |-> ein.solution_id, outcome |-> outcome] IN
    calls' = IF op = "poll" /\ calls # <<>> /\ Last(calls).op = "poll"
                /\ Last(calls).item = ein.solution_id
             THEN [calls EXCEPT ![Len(calls)] = c]
             ELSE Append(calls, c)

(***************************************************************************)
(* RemediationEngine.remediate, one action per remote remediation call.    *)
(* Each action runs the code from the call up to the next remote call of   *)
(* the flow (or to the return).                                            *)
(***************************************************************************)

\* lines 196-251: new StateEngine, VALIDATE, and the entry into DELETE
E_ValidateFrom(responses) ==
    /\ epc = "start"
    /\ \E resp \in responses :
        LET e1 == TransPath(NewStateEngine, <<<<"VALIDATING", "Starting validation">>>>)
            skip == ~ein.skip_validation /\ should_skip_macd(resp.macd)
        IN
        /\ Call("validate", Outcome(resp))
        /\ vinfo' = [returned |-> ~resp.raise, eligible |-> ~resp.raise /\ Eligible(resp.macd)]
        /\ UNCHANGED <<ecfg, ein, poll>>
        /\ IF e1.raised
           THEN /\ ReturnInvalid(e1.eng, steps)
                /\ UNCHANGED job
           ELSE IF resp.raise
           THEN \* except Exception (lines 401-412): best-effort move to FAILED
                LET tp == TransPath(e1.eng, <<<<"FAILED", "Unexpected error">>>>)
                    e2 == IF tp.raised THEN [tp.eng EXCEPT !.error = "exception"] ELSE tp.eng
                IN
                /\ Return(e2, steps, FALSE, e2.current_state, "exception", "rejected", "FAILED")
                /\ _notify(<<"VALIDATE">>)
           ELSE IF ~is_success(resp.success)
           THEN /\ LET tp == TransPath(e1.eng, <<<<"FAILED", "remote message">>>>)
                       st == Append(steps, StepResult("VALIDATE", FALSE, "remote message", None))
                   IN IF tp.raised
                      THEN ReturnInvalid(tp.eng, st)
                      ELSE Return(tp.eng, st, FALSE, "VALIDATE", "remote message",
                                  "rejected", "FAILED")
                /\ _notify(<<"VALIDATE", "VALIDATE">>)
           ELSE IF skip
           THEN /\ LET tp == TransPath(e1.eng, <<<<"SKIPPED", "skip reason">>>>)
                       st == Append(steps, StepResult("VALIDATE", TRUE, "Skipped", None))
                   IN IF tp.raised
                      THEN ReturnInvalid(tp.eng, st)
                      ELSE Return(tp.eng, st, FALSE, None, "skip reason",
                                  "rejected", "SKIPPED")
                /\ _notify(<<"VALIDATE", "VALIDATE">>)
           ELSE /\ LET tp == TransPath(e1.eng, <<<<"VALIDATED", "Eligibility confirmed">>,
                                                 <<"DELETING_SM_DATA", "Deleting SM artifacts">>>>)
                       st == Append(steps, StepResult("VALIDATE", TRUE, "Eligibility confirmed", None))
                   IN IF tp.raised
                      THEN ReturnInvalid(tp.eng, st)
                      ELSE /\ eng' = tp.eng
                           /\ steps' = st
                           /\ epc' = "delete"
                           /\ UNCHANGED <<eres, spLog>>
                /\ _notify(<<"VALIDATE", "VALIDATE", "DELETE">>)

E_Validate == E_ValidateFrom(ValidateResponses)

\* lines 253-291: DELETE and the entry into MIGRATE
E_Delete ==
    /\ epc = "delete"
    /\ \E resp \in CallResponses :
        /\ Call("delete", Outcome(resp))
        /\ UNCHANGED <<ecfg, ein, poll, vinfo>>
        /\ IF resp.raise \/ ~is_success(resp.success)
           THEN /\ ReturnFailed(<<<<"DELETE_FAILED", "message">>,
                                   <<"FAILED", IF resp.raise THEN "Delete exception"
                                               ELSE "Delete operation failed">>>>,
                                Append(steps, StepResult("DELETE", FALSE,
                                       IF resp.raise THEN "exception" ELSE "remote message", None)),
                                "DELETE",
                                IF resp.raise THEN "exception" ELSE "remote message")
                /\ _notify(<<"DELETE">>)
           ELSE /\ Continue(<<<<"MIGRATING", "Starting migration">>>>,
                            Append(steps, StepResult("DELETE", TRUE, "SM artifacts deleted", None)),
                            "migrate")
                /\ _notify(<<"DELETE", "MIGRATE">>)

\* lines 294-333 and _step_poll lines 424-426: MIGRATE, the entry into POLL
\* and the initial delay
E_Migrate ==
    /\ epc = "migrate"
    /\ \E resp \in CallResponses :
        /\ Call("migrate", Outcome(resp))
        /\ UNCHANGED <<ecfg, ein, vinfo>>
        /\ IF resp.raise \/ ~is_success(resp.success)
           THEN /\ ReturnFailed(<<<<"MIGRATION_FAILED", "message">>,
                                   <<"FAILED", IF resp.raise THEN "Migration exception"
                                               ELSE "Migration failed">>>>,
                                Append(steps, StepResult("MIGRATE", FALSE,
                                       IF resp.raise THEN "exception" ELSE "remote message", None)),
                                "MIGRATE",
                                IF resp.raise THEN "exception" ELSE "remote message")
                /\ _notify(<<"MIGRATE">>)
                /\ UNCHANGED poll
           ELSE /\ Continue(<<<<"WAITING_CONFIRMATION", "Polling migration status">>>>,
                            Append(steps, StepResult("MIGRATE", TRUE, "Migration started", None)),
                            "poll")
                /\ _notify(<<"MIGRATE", "POLL">>)
                /\ poll' = [elapsed |-> ecfg.initial_delay,
                            current_interval |-> ecfg.poll_interval,
                            slept |-> ecfg.initial_delay,
                            timed_out |-> FALSE,
                            last |-> None]

\* a current_interval at or above every max_interval behaves as any larger one
IntervalCap == 64

Backoff_FixedInterval(p) ==
    LET wait == Min(p.current_interval, ecfg.max_interval) IN
    [p EXCEPT !.elapsed = @ + wait, !.slept = @ + wait]

\* lines 441-444: the wait after an inconclusive poll
Backoff(p) ==
    LET wait == Min(p.current_interval, ecfg.max_interval) IN
    [p EXCEPT !.elapsed = @ + wait,
              !.slept = @ + wait,
              !.current_interval = Min(@ * ecfg.backoff_factor, IntervalCap)]

\* lines 338-348: POLL failed (status FAILED/ERROR, or timeout)
PollFailed(status, message) ==
    /\ ReturnFailed(<<<<"MIGRATION_FAILED", message>>, <<"FAILED", "Migration polling">>>>,
                    Append(steps, StepResult("POLL", FALSE, message, status)),
                    "POLL", message)
    /\ _notify(<<"POLL">>)

\* one iteration of the while loop of _step_poll (lines 428-444), and on a
\* confirming status lines 350-359
E_Poll ==
    /\ epc = "poll"
    /\ poll.elapsed < ecfg.max_duration
    /\ \E resp \in PollResponses :
        LET polled == [poll EXCEPT !.last = IF resp.raise THEN "raise" ELSE resp.status] IN
        /\ Call("poll", PollOutcome(resp))
        /\ UNCHANGED <<ecfg, ein, vinfo>>
        /\ IF ~resp.raise /\ Upper(resp.status) \in {"COMPLETED", "SUCCESS"}
           THEN /\ Continue(<<<<"CONFIRMED", "Migration confirmed">>,
                              <<"POST_UPDATE", "Running post-migration update">>>>,
                            Append(steps, StepResult("POLL", TRUE, "Migration confirmed", "COMPLETED")),
                            "post_update")
                /\ _notify(<<"POLL", "POST_UPDATE">>)
                /\ poll' = polled
           ELSE IF ~resp.raise /\ Upper(resp.status) \in {"FAILED", "ERROR"}
           THEN /\ PollFailed("FAILED", "remote message")
                /\ poll' = polled
           ELSE /\ poll' = Backoff(polled)
                /\ UNCHANGED <<epc, eng, steps, eres, spLog, job>>

\* the while condition fails (line 428) and _step_poll returns TIMEOUT (line 446)
E_PollTimeout ==
    /\ epc = "poll"
    /\ ~(poll.elapsed < ecfg.max_duration)
    /\ PollFailed("TIMEOUT", "Polling timed out")
    /\ poll' = [poll EXCEPT !.timed_out = TRUE]
    /\ UNCHANGED <<ecfg, ein, vinfo, calls>>

\* lines 361-390: POST_UPDATE (non-fatal) and the successful return
E_PostUpdate ==
    /\ epc = "post_update"
    /\ \E resp \in PostUpdateResponses :
        LET tp == TransPath(eng, <<<<"COMPLETED", "Remediation completed successfully">>>>)
            st == Append(steps, StepResult("POST_UPDATE", PostUpdateReturned(resp),
                                           IF PostUpdateReturned(resp)
                                           THEN "SFDC fields updated" ELSE "exception",
                                           None))
        IN
        /\ Call("post_update", IF PostUpdateReturned(resp) THEN resp ELSE "raise")
        /\ UNCHANGED <<ecfg, ein, vinfo, poll>>
        /\ IF tp.raised
           THEN ReturnInvalid(tp.eng, st)
           ELSE Return(tp.eng, st, TRUE, None, "Remediation completed successfully",
                       "resolved", "COMPLETED")
        /\ _notify(<<"POST_UPDATE">>)


(***************************************************************************)
(* The remaining state: batch executors, OE executor, scheduler loop and   *)
(* schedule checker.                                                       *)
(***************************************************************************)
VARIABLES
    bpc,            \* where execute_batch stands
    bin,            \* the executor's construction and call arguments
    bi,             \* 1-based position of the loop of execute_batch in to_process
    started,        \* the items whose processing began, in order
    results,        \* self.results
    summary,        \* self.summary
    cancelled,      \* self._cancelled
    observed,       \* execute_batch read _cancelled as set (loop head or final decision)
    final_state,    \* the local final_state of execute_batch
    opc,            \* where OEExecutor.remediate of the current item stands
    oinfo,          \* what get_oe_service_info returned for the current item
    ores            \* the OEResult returned, NoOEResult until then

batchVars == <<bpc, bin, bi, started, results, summary, cancelled, observed,
               final_state, opc, oinfo, ores>>

NoBatch == [variant |-> None, dry_run |-> FALSE, ids |-> <<>>, max_count |-> NoInt,
            job_id |-> None, tickets |-> {}]

\* self.summary = BatchJobSummary() / OEBatchJobSummary() of __init__: the
\* fields the two summaries share, all zero, until execute_batch builds its own
NoSummary == [total |-> 0, skipped |-> 0, failed |-> 0, pending |-> 0]

\* no attachment fetched, no OEResult returned
NoOEInfo == [kind |-> None, missing |-> FALSE, constants |-> FALSE, settable |-> FALSE]

NoOEResult ==
    [item |-> None, final_state |-> None, failure_stage |-> None,
     fields_patched |-> FALSE]

BatchIdle ==
    /\ bpc = "idle" /\ bin = NoBatch /\ bi = 0 /\ started = <<>> /\ results = <<>>
    /\ summary = NoSummary /\ cancelled = FALSE /\ observed = FALSE /\ final_state = None
    /\ opc = "idle" /\ oinfo = NoOEInfo /\ ores = NoOEResult

VARIABLES
    scheduler_running,  \* main.py global
    scheduler_task,     \* main.py global: the number of a loop task, 0 for None
    tasks,              \* the _scheduler_loop tasks created so far
    ticks,              \* the check_and_execute runs handed to worker threads
    stops,              \* stop_scheduler handlers suspended in "await scheduler_task"
    total_cycles,       \* main.py global
    last_cycle_error,   \* main.py global
    last_cycle_result   \* main.py global: None, or "result" for the dict of a served tick

schedVars == <<scheduler_running, scheduler_task, tasks, ticks, stops,
               total_cycles, last_cycle_error, last_cycle_result>>

SchedIdle ==
    /\ scheduler_running = FALSE /\ scheduler_task = 0 /\ tasks = <<>>
    /\ ticks = <<>> /\ stops = {} /\ total_cycles = 0 /\ last_cycle_error = None
    /\ last_cycle_result = None

VARIABLES
    csched,     \* the BatchSchedule given to is_ready
    cnow,       \* the clock: datetime.now(timezone.utc)
    creads,     \* the values self.now returned during the call, in order
    cpc,        \* where is_ready stands
    cready      \* the value is_ready returned, None before the return

chkVars == <<csched, cnow, creads, cpc, cready>>

NoSchedule == [is_active |-> FALSE,
               next_execution_date |-> [set |-> FALSE, wall |-> 0, tzinfo |-> None],
               window_start_time |-> 0, window_end_time |-> 0, timezone |-> "UTC"]

ChkIdle == csched = NoSchedule /\ cnow = 0 /\ creads = <<>> /\ cpc = "idle" /\ cready = None

VARIABLES
    xsched,     \* the BatchSchedule entity as the runtime holds it
    xjobs,      \* the BatchJob entities created for it, in creation order
    execs       \* the _execute_schedule calls made so far, running or returned

execVars == <<xsched, xjobs, execs>>

NoStats ==
    [max_batch_size |-> 0, total_executions |-> 0, successful_executions |-> 0,
     failed_executions |-> 0]

ExecIdle == xsched = NoStats /\ xjobs = <<>> /\ execs = <<>>

VARIABLES
    pin,        \* the arguments of patch_oe_json
    pobj,       \* the caller's oe_json object, as it is now
    pouts       \* what the applications of patch_oe_json returned, in order

patchVars == <<pin, pobj, pouts>>

\* an attachment without NonCommercialProduct
NoAttachment == [is_list |-> FALSE, NonCommercialProduct |-> <<>>]

PatchIdle ==
    /\ pin = [oe_json |-> NoAttachment, fields_to_patch |-> <<>>, service_type |-> None]
    /\ pobj = NoAttachment
    /\ pouts = <<>>

VARIABLES
    sresp,      \* the success field of a remote response
    sres        \* what is_success and _is_success made of it, None before the call

succVars == <<sresp, sres>>

SuccIdle == sresp = Absent /\ sres = [is_success |-> None, _is_success |-> None]

VARIABLES
    uin,        \* the arguments of update_service_problem
    ticket,     \* the ServiceProblem as the runtime holds it
    upc,        \* where update_service_problem stands
    umerged     \* its local merged_chars

ticketVars == <<uin, ticket, upc, umerged>>

NoTicket == [status |-> None, characteristic |-> <<>>]

TicketIdle ==
    /\ uin = [status |-> None, remediation_state |-> None]
    /\ ticket = NoTicket
    /\ upc = "idle"
    /\ umerged = <<>>

VARIABLES
    rsched,     \* a BatchSchedule entity as the runtime holds it
    rnow,       \* the clock: hours since a midnight UTC
    rrun,       \* the _execute_schedule call of the scheduler loop, if one runs
    rlast       \* the latest _execute_schedule call that returned

recurVars == <<rsched, rnow, rrun, rlast>>

NoDate == [set |-> FALSE, wall |-> 0, tzinfo |-> None]

NoRecurring ==
    [is_active |-> FALSE, recurrence_pattern |-> None, window_start_time |-> 0,
     window_end_time |-> 0, timezone |-> None, nextExecutionDate |-> NoDate]

NoParsed == [is_active |-> FALSE, recurrence_pattern |-> None, window_start_time |-> 0, window_end_time |-> 0, timezone |-> None, next_execution_date |-> NoDate]
NoRun == [running |-> FALSE, snap |-> NoParsed, at |-> 0]

NoLast == [ran |-> FALSE, at |-> 0, done |-> 0, next |-> NoDate, served |-> FALSE]

RecurIdle == rsched = NoRecurring /\ rnow = 0 /\ rrun = NoRun /\ rlast = NoLast

VARIABLES
    kpc,        \* where check_and_execute stands
    kraw,       \* raw_schedules, what list_schedules returned
    kready,     \* ready: positions in kraw of the schedules found ready, in order
    kpos,       \* 1-based position of the loop of step 4 in ready
    kcalls,     \* positions in kraw of the schedules _execute_schedule ran for
    created_jobs \* the list check_and_execute returns

tickVars == <<kpc, kraw, kready, kpos, kcalls, created_jobs>>

TickIdle ==
    /\ kpc = "idle" /\ kraw = <<>> /\ kready = <<>> /\ kpos = 0 /\ kcalls = <<>>
    /\ created_jobs = <<>>

flowVars == <<recurVars, tickVars>>

FlowIdle == RecurIdle /\ TickIdle

unitVars == <<patchVars, succVars, ticketVars, flowVars>>

UnitIdle == PatchIdle /\ SuccIdle /\ TicketIdle /\ FlowIdle

vars == <<seVars, envVars, engVars, job, batchVars, schedVars, chkVars, execVars,
          unitVars>>

(***************************************************************************)
(* SpecSE: a StateEngine under arbitrary transition calls                  *)
(***************************************************************************)
InitSE ==
    /\ se = NewStateEngine /\ seCall = NoCall
    /\ Reliable /\ EngIdle /\ job = NewJob /\ BatchIdle /\ SchedIdle /\ ChkIdle /\ ExecIdle
    /\ UnitIdle

NextSE ==
    SE_Transition
    /\ UNCHANGED <<envVars, engVars, job, batchVars, schedVars, chkVars, execVars, unitVars>>

SpecSE == InitSE /\ [][NextSE]_vars

(***************************************************************************)
(* SpecEngine: one remediate() call, as POST /remediate/{solution_id}      *)
(* makes it (no step callback), for every polling configuration of a small *)
(* set.                                                                    *)
(***************************************************************************)
DEFAULT_INITIAL_DELAY == 10

DEFAULT_POLL_INTERVAL == 10

DEFAULT_MAX_INTERVAL == 60

DEFAULT_BACKOFF_FACTOR == 2

DEFAULT_MAX_DURATION == 1800

DefaultCfg ==
    [initial_delay |-> DEFAULT_INITIAL_DELAY, poll_interval |-> DEFAULT_POLL_INTERVAL,
     max_interval |-> DEFAULT_MAX_INTERVAL, backoff_factor |-> DEFAULT_BACKOFF_FACTOR,
     max_duration |-> DEFAULT_MAX_DURATION]

MaxDelay == 2

MaxDuration == 5

\* small polling configurations (seconds), zero values included
SmallCfgs ==
    [initial_delay : {0, 1}, poll_interval : 0..MaxDelay, max_interval : {0, 10},
     backoff_factor : {1, 2}, max_duration : {1, MaxDuration}]

EngineCfgs == SmallCfgs \cup {DefaultCfg}

InitEngine ==
    /\ SEIdle /\ Reliable /\ job = NewJob /\ BatchIdle /\ SchedIdle /\ ChkIdle /\ ExecIdle
    /\ UnitIdle
    /\ epc = "start" /\ eng = NewStateEngine
    /\ ecfg \in EngineCfgs
    /\ ein \in [solution_id : {"i1"}, service_problem_id : {None, "sp1"},
                skip_validation : BOOLEAN, on_step : {FALSE}, job_id : {None}]
    /\ calls = <<>> /\ steps = <<>> /\ eres = NoResult /\ poll = NoPoll
    /\ spLog = <<>> /\ vinfo = NoInfo

EngineRest == UNCHANGED <<seVars, envVars, batchVars, schedVars, chkVars, execVars, unitVars>>

NextEngine ==
    \/ E_Validate /\ EngineRest
    \/ E_Delete /\ EngineRest
    \/ E_Migrate /\ EngineRest
    \/ E_Poll /\ EngineRest
    \/ E_PollTimeout /\ EngineRest
    \/ E_PostUpdate /\ EngineRest

SpecEngine == InitEngine /\ [][NextEngine]_vars

\* remediate() runs in a worker thread that is never suspended for ever
FairSpecEngine == SpecEngine /\ WF_vars(NextEngine)


(***************************************************************************)
(* services/oe_executor.py: OEExecutor.remediate, one action per remote    *)
(* call. The attachment analysis is carried by two facts about the fetched *)
(* attachment: whether analyze_oe_content reports missing fields, and      *)
(* whether patch_oe_json sets at least one of them.                        *)
(***************************************************************************)
FetchKinds == {"raise", "fail", "replacement", "no_attachment", "bad_json", "no_type", "ok"}

\* get_oe_service_info: what the call did, and for a usable attachment what
\* the analysis finds in it: a mandatory field is missing; one of the missing
\* fields has a hard-coded value (VOICE_CONSTANTS); patch_oe_json can set one
\* of the fields it is given
FetchResponses ==
    [kind : FetchKinds \ {"ok"}, missing : {FALSE}, constants : {FALSE}, settable : {FALSE}]
    \cup [kind : {"ok"}, missing : BOOLEAN, constants : {FALSE}, settable : BOOLEAN]
    \cup [kind : {"ok"}, missing : {TRUE}, constants : {TRUE}, settable : BOOLEAN]

\* get_oe_enrichment_data: raises (and _resolve_enrichment returns {}), or
\* returns data that has no value for any missing field (an empty result
\* included), or data with a value for a missing field
EnrichResponses == {"raise", "insufficient", "data"}

HasInstructions_FromEnrichmentOnly(info, resp) == resp = "data"

\* _build_patch_instructions returns a non-empty list
HasInstructions(info, resp) == info.constants \/ resp = "data"

\* _is_success(response) of oe_executor.py, on the success field
_is_success(success) ==
    LET s == Get(success, JStr(<<>>)) IN
    IF s.kind = "bool" THEN s = JBool(TRUE)
    ELSE lower(str(s)) = W_true

OEResult(final, stage, patched) ==
    [item |-> bin.ids[bi], final_state |-> final, failure_stage |-> stage,
     fields_patched |-> patched]

\* _fail(service_id, stage, error, start)
_fail(stage) == OEResult("FAILED", stage, FALSE)

OCall(op, outcome) ==
    calls' = Append(calls, [op |-> op, item |-> bin.ids[bi], outcome |-> outcome])

OReturn(r) == ores' = r /\ opc' = "done" /\ UNCHANGED oinfo

\* lines 159-201
O_Fetch ==
    /\ opc = "fetch"
    /\ \E resp \in FetchResponses :
        /\ OCall("get_oe_service_info", IF resp.kind = "ok" THEN "ok" ELSE resp.kind)
        /\ CASE resp.kind \in {"raise", "fail", "no_attachment"} -> OReturn(_fail("FETCH"))
             [] resp.kind = "replacement" -> OReturn(OEResult("SKIPPED", None, FALSE))
             [] resp.kind = "bad_json" -> OReturn(_fail("PARSE"))
             [] resp.kind = "no_type" -> OReturn(_fail("ANALYZE"))
             [] OTHER -> /\ oinfo' = resp
                         /\ opc' = "enrich"
                         /\ UNCHANGED ores

\* O_Enrich with the attachment written before dry_run is looked at
O_Enrich_PersistsOnDryRun ==
    /\ opc = "enrich"
    /\ \E resp \in EnrichResponses :
        /\ OCall(IF bin.dry_run THEN "update_oe_attachment" ELSE "get_oe_enrichment_data",
                 IF resp = "data" THEN "ok" ELSE resp)
        /\ IF ~oinfo.missing
           THEN OReturn(OEResult("NOT_IMPACTED", None, FALSE))
           ELSE IF ~HasInstructions(oinfo, resp)
           THEN OReturn(_fail("ENRICH"))
           ELSE IF ~oinfo.settable
           THEN OReturn(OEResult("NOT_IMPACTED", None, FALSE))
           ELSE IF bin.dry_run
           THEN OReturn(OEResult("VALIDATED", None, TRUE))
           ELSE opc' = "persist" /\ UNCHANGED <<oinfo, ores>>

\* lines 204-252: _resolve_enrichment, analysis, patch, and the dry-run return
O_Enrich ==
    /\ opc = "enrich"
    /\ \E resp \in EnrichResponses :
        /\ OCall("get_oe_enrichment_data", IF resp = "data" THEN "ok" ELSE resp)
        /\ IF ~oinfo.missing
           THEN OReturn(OEResult("NOT_IMPACTED", None, FALSE))
           ELSE IF ~HasInstructions(oinfo, resp)
           THEN OReturn(_fail("ENRICH"))
           ELSE IF ~oinfo.settable
           THEN OReturn(OEResult("NOT_IMPACTED", None, FALSE))
           ELSE IF bin.dry_run
           THEN OReturn(OEResult("VALIDATED", None, TRUE))
           ELSE opc' = "persist" /\ UNCHANGED <<oinfo, ores>>

\* lines 257-268
O_Persist ==
    /\ opc = "persist"
    /\ \E resp \in CallResponses :
        /\ OCall("update_oe_attachment", Outcome(resp))
        /\ IF resp.raise \/ ~_is_success(resp.success)
           THEN OReturn(_fail("ATTACHMENT"))
           ELSE opc' = "trigger" /\ UNCHANGED <<oinfo, ores>>

\* lines 273-292
O_Trigger ==
    /\ opc = "trigger"
    /\ \E resp \in CallResponses :
        /\ OCall("trigger_oe_remediation", Outcome(resp))
        /\ IF resp.raise \/ ~_is_success(resp.success)
           THEN OReturn(_fail("SM_SYNC"))
           ELSE OReturn(OEResult("REMEDIATED", None, TRUE))

(***************************************************************************)
(* services/batch_executor.py and services/oe_batch_executor.py            *)
(***************************************************************************)
MaxItems == 2

ItemNames == <<"i1", "i2", "i3", "i4">>

ItemIds == {ItemNames[k] : k \in 1..MaxItems}

\* work lists: the first n items, in either order
IdLists ==
    {[k \in 1..n |-> ItemNames[k]] : n \in 0..MaxItems}
    \cup {[k \in 1..n |-> ItemNames[n + 1 - k]] : n \in 0..MaxItems}

\* solution_ids[:max_count] if max_count else solution_ids
to_process_FromEnd(ids, max_count) ==
    IF max_count = NoInt \/ max_count = 0 THEN ids
    ELSE SubSeq(ids, Len(ids) - Min(max_count, Len(ids)) + 1, Len(ids))

to_process(ids, max_count) ==
    IF max_count = NoInt \/ max_count = 0 THEN ids
    ELSE SubSeq(ids, 1, Min(max_count, Len(ids)))

BatchJobSummary(total, pending) ==
    [total |-> total, successful |-> 0, failed |-> 0, skipped |-> 0, pending |-> pending]

OEBatchJobSummary(total, pending) ==
    [total |-> total, remediated |-> 0, not_impacted |-> 0, skipped |-> 0,
     failed |-> 0, pending |-> pending]

\* BatchExecutor._update_job / OEBatchExecutor._update_job: nothing without a
\* job id; otherwise one update_job call
_update_job(patch) ==
    IF bin.job_id = None
    THEN UNCHANGED job
    ELSE \E ok \in Oks : job' = Update(job, patch, ok)

\* sp_mapping.get(solution_id) / entry.get("serviceProblemId", "")
TicketOf(id) == IF id \in bin.tickets THEN "sp1" ELSE None

\* OEBatchExecutor._update_service_problem: nothing without a ticket id;
\* otherwise one update_service_problem call (a call that raises is logged)
_update_service_problem(id, status, remediation_state) ==
    IF TicketOf(id) = None
    THEN UNCHANGED spLog
    ELSE \E ok \in Oks :
             spLog' = Append(spLog, [item |-> id, sp_id |-> TicketOf(id), status |-> status,
                                     state |-> remediation_state, fate |-> Fate(ok)])

_sp_status_from_result_FailedRejected(r) ==
    CASE r.final_state = "REMEDIATED" -> "resolved"
      [] r.final_state \in {"NOT_IMPACTED", "SKIPPED"} -> "closed"
      [] r.final_state = "FAILED" -> "rejected"
      [] OTHER -> "inProgress"

_sp_status_from_result(r) ==
    CASE r.final_state = "REMEDIATED" -> "resolved"
      [] r.final_state \in {"NOT_IMPACTED", "SKIPPED"} -> "closed"
      [] r.final_state = "FAILED" -> "pending"
      [] OTHER -> "inProgress"

\* the polling parameters _process_single passes (settings.remediation_*)
BatchCfg ==
    [initial_delay |-> 1, poll_interval |-> 1, max_interval |-> 10,
     backoff_factor |-> 2, max_duration |-> 5]

ToProcess == to_process(bin.ids, bin.max_count)

\* the validate responses met in batch runs: those with at most one basket
BatchValidateResponses ==
    {r \in ValidateResponses : Len(r.macd.basketDetails) <= 1}

\* lines 97-107
B_Begin ==
    /\ bpc = "begin"
    /\ summary' = IF bin.variant = "solution"
                  THEN BatchJobSummary(Len(ToProcess), Len(ToProcess))
                  ELSE OEBatchJobSummary(Len(ToProcess), Len(ToProcess))
    /\ _update_job([state |-> "inProgress", x_summary |-> <<summary'>>])
    /\ bi' = 1
    /\ bpc' = "loop"
    /\ UNCHANGED <<bin, started, results, cancelled, observed, final_state, opc, oinfo, ores>>
    /\ UNCHANGED engVars

\* the for loop is exhausted
B_LoopEnd ==
    /\ bpc = "loop"
    /\ bi > Len(ToProcess)
    /\ bpc' = "final"
    /\ UNCHANGED <<bin, bi, started, results, summary, cancelled, observed, final_state,
                   opc, oinfo, ores, job>>
    /\ UNCHANGED engVars

\* lines 110-113: the flag is set at the head of an iteration
B_ObserveCancel ==
    /\ bpc = "loop"
    /\ bi <= Len(ToProcess)
    /\ cancelled
    /\ observed' = TRUE
    /\ bpc' = "final"
    /\ UNCHANGED <<bin, bi, started, results, summary, cancelled, final_state,
                   opc, oinfo, ores, job>>
    /\ UNCHANGED engVars

\* lines 115-124 and _process_single lines 164-190 (Solution);
\* lines 93-107 (OE)
B_StartItem ==
    /\ bpc = "loop"
    /\ bi <= Len(ToProcess)
    /\ ~cancelled
    /\ LET id == ToProcess[bi] IN
        /\ started' = Append(started, id)
        /\ _update_job([x_currentItemId |-> id, x_currentItemState |-> "VALIDATING",
                        actualQuantity |-> bi - 1])
        /\ calls' = <<>>
        /\ IF bin.variant = "solution"
           THEN /\ ein' = [solution_id |-> id, service_problem_id |-> TicketOf(id),
                           skip_validation |-> FALSE, on_step |-> TRUE,
                           job_id |-> bin.job_id]
                /\ ecfg' = BatchCfg
                /\ epc' = "start"
                /\ eng' = NewStateEngine
                /\ steps' = <<>> /\ eres' = NoResult /\ poll' = NoPoll /\ vinfo' = NoInfo
                /\ UNCHANGED <<spLog, opc, oinfo, ores>>
           ELSE /\ _update_service_problem(id, "inProgress", "VALIDATING")
                /\ opc' = "fetch"
                /\ oinfo' = NoOEInfo /\ ores' = NoOEResult
                /\ UNCHANGED <<epc, eng, ecfg, ein, steps, eres, poll, vinfo>>
    /\ bpc' = "item"
    /\ UNCHANGED <<bin, bi, results, summary, cancelled, observed, final_state>>

Bump(s, field) == [s EXCEPT ![field] = @ + 1]

\* batch_executor.py lines 125-140: the engine returned for the current item
B_ItemEnd ==
    /\ bpc = "item"
    /\ bin.variant = "solution"
    /\ epc = "done"
    /\ results' = Append(results, [item |-> ein.solution_id, final_state |-> eres.final_state])
    /\ LET counted == CASE eres.final_state = "COMPLETED" -> Bump(summary, "successful")
                        [] eres.final_state = "SKIPPED" -> Bump(summary, "skipped")
                        [] eres.final_state = "FAILED" -> Bump(summary, "failed")
                        [] OTHER -> summary
       IN summary' = [counted EXCEPT !.pending = @ - 1]
    /\ _update_job([actualQuantity |-> bi, x_summary |-> <<summary'>>])
    /\ bi' = bi + 1
    /\ bpc' = "loop"
    /\ epc' = "idle" /\ eng' = NewStateEngine /\ steps' = <<>> /\ eres' = NoResult
    /\ poll' = NoPoll /\ vinfo' = NoInfo /\ calls' = <<>>
    /\ UNCHANGED <<bin, started, cancelled, observed, final_state, opc, oinfo, ores>>
    /\ UNCHANGED <<ecfg, ein, spLog>>

\* oe_batch_executor.py lines 111-137: OEExecutor.remediate returned
B_OEItemEnd ==
    /\ bpc = "item"
    /\ bin.variant = "oe"
    /\ opc = "done"
    /\ results' = Append(results, [item |-> ores.item, final_state |-> ores.final_state])
    /\ LET counted == CASE ores.final_state = "REMEDIATED" -> Bump(summary, "remediated")
                        [] ores.final_state = "NOT_IMPACTED" -> Bump(summary, "not_impacted")
                        [] ores.final_state = "SKIPPED" -> Bump(summary, "skipped")
                        [] ores.final_state = "FAILED" -> Bump(summary, "failed")
                        [] OTHER -> summary
       IN summary' = [counted EXCEPT !.pending = @ - 1]
    /\ _update_service_problem(ores.item, _sp_status_from_result(ores), ores.final_state)
    /\ _update_job([actualQuantity |-> bi, x_currentItemState |-> ores.final_state,
                    x_summary |-> <<summary'>>])
    /\ bi' = bi + 1
    /\ bpc' = "loop"
    /\ opc' = "idle" /\ oinfo' = NoOEInfo /\ ores' = NoOEResult /\ calls' = <<>>
    /\ UNCHANGED <<bin, started, cancelled, observed, final_state>>
    /\ UNCHANGED <<epc, eng, ecfg, ein, steps, eres, poll, vinfo>>

FinalDecision_AnyFailure(flag) ==
    IF flag THEN "cancelled"
    ELSE IF summary.failed > 0 THEN "failed"
    ELSE "completed"

FinalDecision_FailedFirst(flag) ==
    IF bin.variant = "solution" /\ summary.failed > 0 /\ summary.successful = 0
    THEN "failed"
    ELSE IF bin.variant = "oe" /\ summary.failed > 0 /\ summary.remediated = 0
    THEN "failed"
    ELSE IF flag THEN "cancelled"
    ELSE "completed"

\* the value of final_state, given self._cancelled as read at line 144 / 141
FinalDecision(flag) ==
    IF flag THEN "cancelled"
    ELSE IF bin.variant = "solution" /\ summary.failed > 0 /\ summary.successful = 0
    THEN "failed"
    ELSE IF bin.variant = "oe" /\ summary.failed > 0 /\ summary.remediated = 0
    THEN "failed"
    ELSE "completed"

\* batch_executor.py lines 143-147 / oe_batch_executor.py lines 140-144
B_FinalCheck ==
    /\ bpc = "final"
    /\ observed' = (observed \/ cancelled)
    /\ final_state' = FinalDecision(cancelled)
    /\ bpc' = "final_update"
    /\ UNCHANGED <<bin, bi, started, results, summary, cancelled, opc, oinfo, ores, job>>
    /\ UNCHANGED engVars

\* final_state.upper()
UpperState(s) ==
    CASE s = "completed" -> "COMPLETED"
      [] s = "cancelled" -> "CANCELLED"
      [] s = "failed" -> "FAILED"

\* batch_executor.py lines 149-157 / oe_batch_executor.py lines 146-158
B_FinalUpdate ==
    /\ bpc = "final_update"
    /\ _update_job([state |-> final_state, actualQuantity |-> Len(results),
                    x_summary |-> <<summary>>, x_currentItemId |-> "",
                    x_currentItemState |->
                        IF bin.variant = "oe" THEN UpperState(final_state)
                        ELSE IF final_state = "completed" THEN "COMPLETED" ELSE "FAILED"])
    /\ bpc' = "done"
    /\ UNCHANGED <<bin, bi, started, results, summary, cancelled, observed, final_state,
                   opc, oinfo, ores>>
    /\ UNCHANGED engVars

\* cancel(), from another thread at any point of execute_batch
B_Cancel ==
    /\ bpc \notin {"idle", "done"}
    /\ ~cancelled
    /\ cancelled' = TRUE
    /\ UNCHANGED <<bpc, bin, bi, started, results, summary, observed, final_state,
                   opc, oinfo, ores, job>>
    /\ UNCHANGED engVars

(***************************************************************************)
(* SpecBatch: one execute_batch call of a BatchExecutor or OEBatchExecutor *)
(* with a concurrent cancel()                                              *)
(***************************************************************************)
BatchInputs ==
    [variant : {"solution"}, dry_run : {FALSE}, ids : IdLists,
     max_count : {NoInt, 0, 1}, job_id : {None, "job1"},
     tickets : SUBSET {"i1"}]
    \cup
    [variant : {"oe"}, dry_run : BOOLEAN, ids : IdLists,
     max_count : {NoInt, 0, 1}, job_id : {None, "job1"},
     tickets : SUBSET {"i1"}]

InitBatch ==
    /\ SEIdle /\ Reliable /\ EngIdle /\ job = NewJob /\ SchedIdle /\ ChkIdle /\ ExecIdle
    /\ UnitIdle
    /\ bpc = "begin" /\ bin \in BatchInputs /\ bi = 0 /\ started = <<>> /\ results = <<>>
    /\ summary = NoSummary /\ cancelled = FALSE /\ observed = FALSE /\ final_state = None
    /\ opc = "idle" /\ oinfo = NoOEInfo /\ ores = NoOEResult

BatchRest == UNCHANGED <<seVars, envVars, schedVars, chkVars, execVars, unitVars>>

\* an engine step inside _process_single
InItem == UNCHANGED <<batchVars, seVars, envVars, schedVars, chkVars, execVars, unitVars>>

\* a step of OEExecutor.remediate inside the loop
InOEItem ==
    /\ UNCHANGED <<bpc, bin, bi, started, results, summary, cancelled, observed, final_state>>
    /\ UNCHANGED <<epc, eng, ecfg, ein, steps, eres, poll, spLog, vinfo, job>>
    /\ UNCHANGED <<seVars, envVars, schedVars, chkVars, execVars, unitVars>>

NextBatch ==
    \/ B_Begin /\ BatchRest
    \/ B_LoopEnd /\ BatchRest
    \/ B_ObserveCancel /\ BatchRest
    \/ B_StartItem /\ BatchRest
    \/ E_ValidateFrom(BatchValidateResponses) /\ InItem
    \/ E_Delete /\ InItem
    \/ E_Migrate /\ InItem
    \/ E_Poll /\ InItem
    \/ E_PollTimeout /\ InItem
    \/ E_PostUpdate /\ InItem
    \/ O_Fetch /\ InOEItem
    \/ O_Enrich /\ InOEItem
    \/ O_Persist /\ InOEItem
    \/ O_Trigger /\ InOEItem
    \/ B_ItemEnd /\ BatchRest
    \/ B_OEItemEnd /\ BatchRest
    \/ B_FinalCheck /\ BatchRest
    \/ B_FinalUpdate /\ BatchRest
    \/ B_Cancel /\ BatchRest

SpecBatch == InitBatch /\ [][NextBatch]_vars

(***************************************************************************)
(* SpecFaulty: the same execute_batch call when every update_job and       *)
(* update_service_problem call can raise                                   *)
(***************************************************************************)
\* a tracked job over a work list of up to two items, the first with a ticket,
\* so that the run makes both kinds of update call
FaultyIds == <<"i1", "i2">>

FaultyInputs ==
    [variant : {"solution", "oe"}, dry_run : {FALSE},
     ids : {SubSeq(FaultyIds, 1, n) : n \in 0..Len(FaultyIds)},
     max_count : {NoInt}, job_id : {"job1"}, tickets : {{"i1"}}]

InitFaulty ==
    /\ SEIdle /\ faulty = TRUE /\ EngIdle /\ job = NewJob /\ SchedIdle /\ ChkIdle /\ ExecIdle
    /\ UnitIdle
    /\ bpc = "begin" /\ bin \in FaultyInputs /\ bi = 0 /\ started = <<>> /\ results = <<>>
    /\ summary = NoSummary /\ cancelled = FALSE /\ observed = FALSE /\ final_state = None
    /\ opc = "idle" /\ oinfo = NoOEInfo /\ ores = NoOEResult

SpecFaulty == InitFaulty /\ [][NextBatch]_vars


(***************************************************************************)
(* main.py: the scheduler loop task, the handlers that start and stop it,  *)
(* POST /execute, and the worker threads running check_and_execute.        *)
(* Coroutines run on one event loop: each action is the code between two   *)
(* awaits. A worker thread started by asyncio.to_thread runs to its end    *)
(* whatever happens to the coroutine awaiting it.                          *)
(***************************************************************************)
MaxTasks == 3

MaxTicks == 2

\* settings.scheduler_interval_seconds (config.py line 21, default)
scheduler_interval_seconds == 60

\* how long a tick can take: no time, exactly the interval, or longer
TickSeconds == {0, scheduler_interval_seconds, scheduler_interval_seconds + 1}

\* a loop task: took is the time its latest awaited tick needed, sleep_for the
\* argument of its latest asyncio.sleep (both 0 before the first)
NewTask == [pc |-> "new", cancel_req |-> FALSE, tick |-> 0, took |-> 0, sleep_for |-> 0]

TaskDone(t) == tasks[t].pc = "done"

\* asyncio.to_thread(scheduler.check_and_execute): a new running tick
StartTick(owner) == Append(ticks, [owner |-> owner, status |-> "running"])

\* POST /scheduler/start (lines 615-624)
H_Start ==
    /\ Len(tasks) < MaxTasks
    /\ ~(scheduler_running /\ scheduler_task # 0 /\ ~TaskDone(scheduler_task))
    /\ scheduler_running' = TRUE
    /\ tasks' = Append(tasks, NewTask)
    /\ scheduler_task' = Len(tasks) + 1
    /\ UNCHANGED <<ticks, stops, total_cycles, last_cycle_error,
                     last_cycle_result>>

\* POST /scheduler/stop up to its await (lines 632-640), or to its return when
\* there is no live task (lines 644-645)
H_StopBegin ==
    /\ scheduler_running
    /\ scheduler_running' = FALSE
    /\ IF scheduler_task # 0 /\ ~TaskDone(scheduler_task)
       THEN /\ tasks' = [tasks EXCEPT ![scheduler_task].cancel_req = TRUE]
            /\ stops' = stops \cup {scheduler_task}
            /\ UNCHANGED scheduler_task
       ELSE /\ scheduler_task' = 0
            /\ UNCHANGED <<tasks, stops>>
    /\ UNCHANGED <<ticks, total_cycles, last_cycle_error,
                     last_cycle_result>>

\* POST /scheduler/stop after its await: the awaited task ended (lines 641-645)
H_StopResume ==
    \E t \in stops :
        /\ TaskDone(t)
        /\ stops' = stops \ {t}
        /\ scheduler_task' = 0
        /\ UNCHANGED <<scheduler_running, tasks, ticks, total_cycles, last_cycle_error,
                     last_cycle_result>>

\* POST /execute (line 270): the handler hands a tick to a worker thread
H_Execute ==
    /\ Len(ticks) < MaxTicks
    /\ ticks' = StartTick("execute")
    /\ UNCHANGED <<scheduler_running, scheduler_task, tasks, stops, total_cycles,
                   last_cycle_error, last_cycle_result>>

\* _scheduler_loop at line 72, entered from the task's start or from the end
\* of its sleep: another tick (line 76), or the exit (line 111)
L_Iterate ==
    \E t \in 1..Len(tasks) :
        /\ tasks[t].pc \in {"new", "sleeping"}
        /\ ~tasks[t].cancel_req
        /\ IF scheduler_running
           THEN /\ Len(ticks) < MaxTicks
                /\ ticks' = StartTick("loop")
                /\ tasks' = [tasks EXCEPT ![t].pc = "await_tick", ![t].tick = Len(ticks) + 1]
                /\ UNCHANGED scheduler_running
           ELSE /\ tasks' = [tasks EXCEPT ![t].pc = "done"]
                /\ scheduler_running' = FALSE
                /\ UNCHANGED ticks
        /\ UNCHANGED <<scheduler_task, stops, total_cycles, last_cycle_error,
                     last_cycle_result>>

\* the awaited tick ended (lines 78-87, or lines 97-102 when it raised), and
\* the loop goes to sleep (line 106)
L_TickDone ==
    \E t \in 1..Len(tasks) :
        /\ tasks[t].pc = "await_tick"
        /\ ~tasks[t].cancel_req
        /\ ticks[tasks[t].tick].status # "running"
        /\ last_cycle_result' = IF ticks[tasks[t].tick].status = "raised" THEN None ELSE "result"
        /\ last_cycle_error' = IF ticks[tasks[t].tick].status = "raised" THEN "error" ELSE None
        /\ total_cycles' = total_cycles + 1
        /\ \E seconds \in TickSeconds :
              tasks' = [tasks EXCEPT ![t].pc = "sleeping", ![t].took = seconds,
                                     ![t].sleep_for = scheduler_interval_seconds]
        /\ UNCHANGED <<scheduler_running, scheduler_task, ticks, stops>>

\* task.cancel() takes effect: a task that never ran ends at once; otherwise
\* CancelledError is raised at the await (line 76 or 106), the loop breaks and
\* line 111 runs
L_Cancelled ==
    \E t \in 1..Len(tasks) :
        /\ tasks[t].pc # "done"
        /\ tasks[t].cancel_req
        /\ tasks' = [tasks EXCEPT ![t].pc = "done"]
        /\ scheduler_running' = IF tasks[t].pc = "new" THEN scheduler_running ELSE FALSE
        /\ UNCHANGED <<scheduler_task, ticks, stops, total_cycles, last_cycle_error,
                     last_cycle_result>>

\* a worker thread reaches the end of check_and_execute
T_Finish ==
    \E k \in 1..Len(ticks), how \in {"returned", "raised"} :
        /\ ticks[k].status = "running"
        /\ ticks' = [ticks EXCEPT ![k].status = how]
        /\ UNCHANGED <<scheduler_running, scheduler_task, tasks, stops, total_cycles,
                       last_cycle_error, last_cycle_result>>

(***************************************************************************)
(* SpecSched: the service after start-up (lifespan lines 136-139), with    *)
(* SCHEDULER_ENABLED either way                                            *)
(***************************************************************************)
InitSched ==
    /\ SEIdle /\ Reliable /\ EngIdle /\ job = NewJob /\ BatchIdle /\ ChkIdle /\ ExecIdle
    /\ UnitIdle
    /\ ticks = <<>> /\ stops = {} /\ total_cycles = 0 /\ last_cycle_error = None
    /\ last_cycle_result = None
    /\ \E scheduler_enabled \in BOOLEAN :
          IF scheduler_enabled
          THEN scheduler_running = TRUE /\ scheduler_task = 1 /\ tasks = <<NewTask>>
          ELSE scheduler_running = FALSE /\ scheduler_task = 0 /\ tasks = <<>>

SchedRest == UNCHANGED <<seVars, envVars, engVars, job, batchVars, chkVars, execVars, unitVars>>

NextSched ==
    \/ H_Start /\ SchedRest
    \/ H_StopBegin /\ SchedRest
    \/ H_StopResume /\ SchedRest
    \/ H_Execute /\ SchedRest
    \/ L_Iterate /\ SchedRest
    \/ L_TickDone /\ SchedRest
    \/ L_Cancelled /\ SchedRest
    \/ T_Finish /\ SchedRest

SpecSched == InitSched /\ [][NextSched]_vars


(***************************************************************************)
(* services/schedule_checker.py. Time is counted in hours: an instant is   *)
(* the number of hours since a midnight UTC, a time of day an hour 0..23.  *)
(***************************************************************************)
Day == 24

MaxNow == 30

\* the clock advances by at most this much during one is_ready call
MaxDrift == 1

Timezones == {"UTC", "Asia/Kuala_Lumpur", "Mars/Olympus"}

\* ZoneInfo(tz_name), as the offset from UTC; KeyError for an unknown name
ZoneInfo(tz_name) ==
    CASE tz_name = "UTC" -> [raised |-> FALSE, offset |-> 0]
      [] tz_name = "Asia/Kuala_Lumpur" -> [raised |-> FALSE, offset |-> 8]
      [] OTHER -> [raised |-> TRUE, offset |-> 0]

\* now.astimezone(tz).time()
LocalTime(now, offset) == (now + offset) % Day

WindowTimes == {0, 6, 22, 23}

\* next_execution_date: None, or a wall-clock reading with its tzinfo (None
\* for a naive datetime)
NextDates ==
    [set : {FALSE}, wall : {0}, tzinfo : {None}]
    \cup [set : {TRUE}, wall : {8, 24, MaxNow}, tzinfo : {None, "UTC", "Asia/Kuala_Lumpur"}]

Schedules ==
    [is_active : BOOLEAN, next_execution_date : NextDates,
     window_start_time : WindowTimes, window_end_time : WindowTimes,
     timezone : Timezones]

\* the instant an aware datetime denotes
InstantOf(d) == d.wall - ZoneInfo(d.tzinfo).offset

_is_within_window_ExclusiveEnd(start_time, end_time, tz_name, now) ==
    LET z == ZoneInfo(tz_name)
        tz == IF z.raised THEN ZoneInfo("UTC") ELSE z
        current_time == LocalTime(now, tz.offset)
    IN IF start_time <= end_time
       THEN start_time <= current_time /\ current_time < end_time
       ELSE current_time >= start_time \/ current_time < end_time

\* _is_within_window (lines 93-107), given the value self.now returns
_is_within_window(start_time, end_time, tz_name, now) ==
    LET z == ZoneInfo(tz_name)
        tz == IF z.raised THEN ZoneInfo("UTC") ELSE z
        current_time == LocalTime(now, tz.offset)
    IN IF start_time <= end_time
       THEN start_time <= current_time /\ current_time <= end_time
       ELSE current_time >= start_time \/ current_time <= end_time

\* is_ready lines 51-64: the flag, the date (one reading of the clock)
C_CheckDate ==
    /\ cpc = "call"
    /\ IF ~csched.is_active \/ ~csched.next_execution_date.set
       THEN cready' = "False" /\ cpc' = "done" /\ UNCHANGED creads
       ELSE LET d == csched.next_execution_date
                next_exec == IF d.tzinfo = None THEN [d EXCEPT !.tzinfo = "UTC"] ELSE d
            IN /\ creads' = Append(creads, cnow)
               /\ IF InstantOf(next_exec) > cnow
                  THEN cready' = "False" /\ cpc' = "done"
                  ELSE cpc' = "window" /\ UNCHANGED cready
    /\ UNCHANGED <<csched, cnow>>

\* is_ready lines 67-74: the window (a second reading of the clock)
C_CheckWindow ==
    /\ cpc = "window"
    /\ creads' = Append(creads, cnow)
    /\ cready' = IF _is_within_window(csched.window_start_time, csched.window_end_time,
                                      csched.timezone, cnow)
                 THEN "True" ELSE "False"
    /\ cpc' = "done"
    /\ UNCHANGED <<csched, cnow>>

\* time passes between the two readings of datetime.now
C_Tick ==
    /\ cpc = "window"
    /\ cnow < creads[1] + MaxDrift
    /\ cnow' = cnow + 1
    /\ UNCHANGED <<csched, creads, cpc, cready>>

(***************************************************************************)
(* SpecChecker: one is_ready call on any schedule at any instant           *)
(***************************************************************************)
InitChecker ==
    /\ SEIdle /\ Reliable /\ EngIdle /\ job = NewJob /\ BatchIdle /\ SchedIdle /\ ExecIdle
    /\ UnitIdle
    /\ csched \in Schedules
    /\ cnow \in 0..MaxNow
    /\ creads = <<>> /\ cpc = "call" /\ cready = None

CheckerRest ==
    UNCHANGED <<seVars, envVars, engVars, job, batchVars, schedVars, execVars, unitVars>>

NextChecker ==
    \/ C_CheckDate /\ CheckerRest
    \/ C_CheckWindow /\ CheckerRest
    \/ C_Tick /\ CheckerRest

SpecChecker == InitChecker /\ [][NextChecker]_vars


(***************************************************************************)
(* services/scheduler.py: Scheduler._execute_schedule on one schedule,     *)
(* called by scheduler ticks and by the manual triggers, which nothing     *)
(* serialises (main.py lines 76, 270 and 294). One action per remote call; *)
(* the batch itself is carried by its summary. The Solution route is       *)
(* followed (_execute_oe_batch has the same shape).                        *)
(***************************************************************************)
MaxExecs == 2

MaxBatchSize == 2

MaxDiscovered == 2

\* the caller's snapshot of the schedule: list_schedules (scheduler.py line
\* 44) or get_schedule (main.py line 285), parsed by _parse_schedule; created
\* is the entity that create_job made for this call, job_id the one the call
\* located (0: none), summary the executor's summary
NewExec ==
    [pc |-> "create", snap |-> xsched, created |-> 0, job_id |-> 0, ids |-> <<>>,
     summary |-> BatchJobSummary(0, 0), exec_success |-> FALSE,
     stats |-> "none", before |-> NoStats, after |-> NoStats]

\* job_data of lines 85-94 as the runtime stores it; the name is
\* "<schedule.name> - Execution <x_executionNumber>" and x_parentScheduleId is
\* the one schedule
NewXJob(s) ==
    [state |-> "pending", requestedQuantity |-> s.max_batch_size, actualQuantity |-> 0,
     x_executionNumber |-> s.total_executions + 1,
     x_summary |-> BatchJobSummary(0, 0)]

SetExec(e, fields) == execs' = [execs EXCEPT ![e] = Merge(@, fields)]

\* a tick or a manual trigger reads the schedule and goes on to execute it
X_Start ==
    /\ Len(execs) < MaxExecs
    /\ execs' = Append(execs, NewExec)
    /\ UNCHANGED <<xsched, xjobs>>

\* lines 96-100: create_job
X_Create ==
    \E e \in 1..Len(execs) :
        /\ execs[e].pc = "create"
        /\ \E ok \in BOOLEAN :
            IF ok
            THEN /\ xjobs' = Append(xjobs, NewXJob(execs[e].snap))
                 /\ SetExec(e, [pc |-> "locate", created |-> Len(xjobs) + 1])
            ELSE /\ SetExec(e, [pc |-> "done"])
                 /\ UNCHANGED xjobs
        /\ UNCHANGED xsched

\* lines 102-112: list_jobs and the search for a pending job of the schedule;
\* the list comes in the order the runtime chooses
X_Locate ==
    \E e \in 1..Len(execs) :
        /\ execs[e].pc = "locate"
        /\ LET pending == {k \in 1..Len(xjobs) : xjobs[k].state = "pending"} IN
           \E ok \in BOOLEAN :
               IF ok /\ pending # {}
               THEN \E k \in pending : SetExec(e, [pc |-> "discover", job_id |-> k])
               ELSE SetExec(e, [pc |-> "done"])
        /\ UNCHANGED <<xsched, xjobs>>

\* update_job on the located entity: the runtime merges the patch, or the
\* call raises and the caller logs it (batch_executor.py lines 56-62,
\* scheduler.py lines 211-220)
TryXJob(k, patch, served) ==
    xjobs' = IF served THEN [xjobs EXCEPT ![k] = Merge(@, patch)] ELSE xjobs

\* _execute_solution_batch lines 146-156 and 176-179, and for a non-empty list
\* execute_batch up to its first update (batch_executor.py lines 97-107)
X_Discover ==
    \E e \in 1..Len(execs) :
        /\ execs[e].pc = "discover"
        /\ \E raised \in BOOLEAN, served \in BOOLEAN, n \in 0..MaxDiscovered :
            LET solution_ids == IF raised THEN <<>> ELSE SubSeq(ItemNames, 1, n)
                work == to_process(solution_ids, execs[e].snap.max_batch_size)
            IN
            IF solution_ids = <<>>
            THEN \* _mark_job_empty
                 /\ TryXJob(execs[e].job_id,
                            [state |-> "completed", actualQuantity |-> 0,
                             x_summary |-> BatchJobSummary(0, 0)], served)
                 /\ SetExec(e, [pc |-> "stats", exec_success |-> TRUE])
            ELSE /\ TryXJob(execs[e].job_id,
                            [state |-> "inProgress",
                             x_summary |-> BatchJobSummary(Len(work), Len(work))], served)
                 /\ SetExec(e, [pc |-> "batch", ids |-> solution_ids,
                                summary |-> BatchJobSummary(Len(work), Len(work))])
        /\ UNCHANGED xsched

\* the rest of execute_batch (batch_executor.py lines 109-157): every item of
\* to_process ends COMPLETED, SKIPPED or FAILED; then line 172 of scheduler.py
X_Batch ==
    \E e \in 1..Len(execs) :
        /\ execs[e].pc = "batch"
        /\ LET work == to_process(execs[e].ids, execs[e].snap.max_batch_size) IN
           \E served \in BOOLEAN, failed \in 0..Len(work) :
           \E successful \in 0..(Len(work) - failed) :
               LET s == [total |-> Len(work), successful |-> successful, failed |-> failed,
                         skipped |-> Len(work) - failed - successful, pending |-> 0]
               IN
               /\ TryXJob(execs[e].job_id,
                          [state |-> IF failed > 0 /\ successful = 0
                                     THEN "failed" ELSE "completed",
                           actualQuantity |-> Len(work),
                           x_summary |-> s], served)
               /\ SetExec(e, [pc |-> "stats", summary |-> s, exec_success |-> (failed = 0)])
        /\ UNCHANGED xsched

\* stats_patch of lines 124-134, from the caller's snapshot
stats_patch(snap, exec_success) ==
    IF exec_success
    THEN [total_executions |-> snap.total_executions + 1,
          successful_executions |-> snap.successful_executions + 1]
    ELSE [total_executions |-> snap.total_executions + 1,
          failed_executions |-> snap.failed_executions + 1]

\* lines 121-139: update_schedule, which merges the patch or raises
X_Stats ==
    \E e \in 1..Len(execs) :
        /\ execs[e].pc = "stats"
        /\ \E ok \in BOOLEAN :
            /\ xsched' = IF ok
                         THEN Merge(xsched, stats_patch(execs[e].snap, execs[e].exec_success))
                         ELSE xsched
            /\ SetExec(e, [pc |-> "done", stats |-> IF ok THEN "served" ELSE "raised",
                           before |-> xsched, after |-> xsched'])
        /\ UNCHANGED xjobs

(***************************************************************************)
(* SpecExec: executions of one stored schedule, started at any time        *)
(***************************************************************************)
\* the counters a schedule can hold after earlier executions
StoredSchedules ==
    {s \in [max_batch_size : 0..MaxBatchSize, total_executions : 0..1,
            successful_executions : 0..1, failed_executions : 0..1] :
        s.total_executions = s.successful_executions + s.failed_executions}

InitExec ==
    /\ SEIdle /\ Reliable /\ EngIdle /\ job = NewJob /\ BatchIdle /\ SchedIdle /\ ChkIdle
    /\ UnitIdle
    /\ xsched \in StoredSchedules
    /\ xjobs = <<>>
    /\ execs = <<>>

ExecRest ==
    UNCHANGED <<seVars, envVars, engVars, job, batchVars, schedVars, chkVars, unitVars>>

NextExec ==
    \/ X_Start /\ ExecRest
    \/ X_Create /\ ExecRest
    \/ X_Locate /\ ExecRest
    \/ X_Discover /\ ExecRest
    \/ X_Batch /\ ExecRest
    \/ X_Stats /\ ExecRest

SpecExec == InitExec /\ [][NextExec]_vars


(***************************************************************************)
(* services/scheduler.py: _calculate_next_execution and the date that      *)
(* _execute_schedule writes, read back by _parse_schedule and is_ready at  *)
(* the next ticks. Instants and wall-clock readings are in hours; day 0    *)
(* starts at instant 0.                                                    *)
(***************************************************************************)
\* the weekday of day 0 (date.weekday(): 0 is Monday, 5 Saturday, 6 Sunday)
EpochWeekday == 3

\* the clock of the model stops here
MaxClock == 72

\* an execution lasts at most this long
MaxRunHours == 2

RecurrencePattern == {"once", "daily", "weekdays", "weekly", "custom"}

weekday(date) == (EpochWeekday + date) % 7

\* datetime.isoformat(): the text of an aware UTC datetime ends in "+00:00",
\* that of a naive one has no offset (the offset text is held in tzinfo)
isoformat(d) ==
    [set |-> TRUE, wall |-> d.wall, tzinfo |-> IF d.tzinfo = "UTC" THEN "+00:00" ELSE None]

\* how the runtime renders a stored timestamp when it is read back
Renderings == {"+00:00", "+00"}

\* str.replace("+00", "+00:00") of _parse_schedule (line 228)
replace(text) ==
    [text EXCEPT !.tzinfo = CASE @ = "+00:00" -> "+00:00:00"
                              [] @ = "+00" -> "+00:00"
                              [] OTHER -> @]

\* datetime.fromisoformat: an offset must have minutes
fromisoformat(text) ==
    CASE text.tzinfo \in {"+00:00", "+00:00:00"} ->
             [raised |-> FALSE, value |-> [text EXCEPT !.tzinfo = "UTC"]]
      [] text.tzinfo = None -> [raised |-> FALSE, value |-> text]
      [] OTHER -> [raised |-> TRUE, value |-> NoDate]

\* _parse_schedule (lines 223-259), the fields that is_ready and
\* _calculate_next_execution read
_parse_schedule(raw) ==
    LET parsed == fromisoformat(replace(raw.nextExecutionDate)) IN
    [is_active |-> raw.is_active,
     recurrence_pattern |-> raw.recurrence_pattern,
     window_start_time |-> raw.window_start_time,
     window_end_time |-> raw.window_end_time,
     timezone |-> raw.timezone,
     next_execution_date |->
         IF ~raw.nextExecutionDate.set \/ parsed.raised THEN NoDate ELSE parsed.value]

\* ScheduleChecker.is_ready (schedule_checker.py lines 40-76) at one reading
\* of the clock
is_ready(schedule, now) ==
    /\ schedule.is_active
    /\ schedule.next_execution_date.set
    /\ LET d == schedule.next_execution_date
           next_exec == IF d.tzinfo = None THEN [d EXCEPT !.tzinfo = "UTC"] ELSE d
       IN ~(InstantOf(next_exec) > now)
    /\ _is_within_window(schedule.window_start_time, schedule.window_end_time,
                         schedule.timezone, now)

\* the first date from date on that is not a Saturday or a Sunday (lines 272-274)
RECURSIVE SkipWeekend(_)
SkipWeekend(date) == IF weekday(date) >= 5 THEN SkipWeekend(date + 1) ELSE date

\* datetime.combine(next_date, schedule.window_start_time, tzinfo=timezone.utc)
combine(date, time_of_day) == [set |-> TRUE, wall |-> date * Day + time_of_day, tzinfo |-> "UTC"]

\* _calculate_next_execution (lines 262-282), given the value of datetime.now
_calculate_next_execution(schedule, now) ==
    LET today == now \div Day IN
    CASE schedule.recurrence_pattern = "once" -> NoDate
      [] schedule.recurrence_pattern = "daily" ->
             combine(today + 1, schedule.window_start_time)
      [] schedule.recurrence_pattern = "weekdays" ->
             combine(SkipWeekend(today + 1), schedule.window_start_time)
      [] schedule.recurrence_pattern = "weekly" ->
             combine(today + 7, schedule.window_start_time)
      [] OTHER -> combine(today + 1, schedule.window_start_time)

\* time passes; an execution in flight ends within MaxRunHours
R_Advance ==
    /\ rnow < MaxClock
    /\ rrun.running => rnow - rrun.at < MaxRunHours
    /\ rnow' = rnow + 1
    /\ UNCHANGED <<rsched, rrun, rlast>>

\* a tick of the scheduler loop finds the schedule ready (check_and_execute
\* lines 43-70) and _execute_schedule begins
R_Tick ==
    /\ ~rrun.running
    /\ is_ready(_parse_schedule(rsched), rnow)
    /\ rrun' = [running |-> TRUE, snap |-> _parse_schedule(rsched), at |-> rnow]
    /\ UNCHANGED <<rsched, rnow, rlast>>

\* _execute_schedule lines 123-139: the statistics update, served or not;
\* the runtime renders the stored date in one of its ways
R_Finish ==
    /\ rrun.running
    /\ LET next_exec == _calculate_next_execution(rrun.snap, rnow) IN
       \E ok \in BOOLEAN, rendering \in Renderings :
           /\ rsched' = IF ~ok THEN rsched
                        ELSE [rsched EXCEPT !.nextExecutionDate =
                                 IF next_exec.set
                                 THEN [isoformat(next_exec) EXCEPT !.tzinfo = rendering]
                                 ELSE NoDate]
           /\ rlast' = [ran |-> TRUE, at |-> rrun.at, done |-> rnow, next |-> next_exec,
                        served |-> ok]
    /\ rrun' = NoRun
    /\ UNCHANGED rnow

(***************************************************************************)
(* SpecRecur: one active schedule, due from instant 0, under the ticks of  *)
(* the scheduler loop                                                      *)
(***************************************************************************)
Windows == {<<0, 6>>, <<22, 6>>, <<22, 23>>}

Recurrings ==
    {[is_active |-> TRUE, recurrence_pattern |-> r, window_start_time |-> w[1],
      window_end_time |-> w[2], timezone |-> tz,
      nextExecutionDate |-> [set |-> TRUE, wall |-> 0, tzinfo |-> "+00"]] :
        r \in RecurrencePattern, w \in Windows, tz \in Timezones}

InitRecur ==
    /\ SEIdle /\ Reliable /\ EngIdle /\ job = NewJob /\ BatchIdle /\ SchedIdle /\ ChkIdle
    /\ ExecIdle /\ PatchIdle /\ SuccIdle /\ TicketIdle /\ TickIdle
    /\ rsched \in Recurrings
    /\ rnow = 0
    /\ rrun = NoRun
    /\ rlast = NoLast

RecurRest ==
    UNCHANGED <<seVars, envVars, engVars, job, batchVars, schedVars, chkVars, execVars,
                patchVars, succVars, ticketVars, tickVars>>

NextRecur ==
    \/ R_Advance /\ RecurRest
    \/ R_Tick /\ RecurRest
    \/ R_Finish /\ RecurRest

SpecRecur == InitRecur /\ [][NextRecur]_vars


(***************************************************************************)
(* Scheduler.check_and_execute (scheduler.py lines 33-74): one tick over   *)
(* the listed schedule records                                             *)
(***************************************************************************)
\* at most this many records are listed
MaxSchedules == 3

\* a listed record: an object that _parse_schedule accepts ("ok"), one it
\* rejects (no id, a windowStartTime that is no time: "unparseable"), an
\* element that is no object ("not_an_object"), or an object whose
\* windowStartTime carries an offset, parsed by time.fromisoformat into an
\* aware time ("aware_window"); due tells whether the record is active with a
\* next execution date that has passed, inside its window
RecordKinds == {"ok", "unparseable", "not_an_object", "aware_window"}

RawSchedules == [kind : RecordKinds, due : BOOLEAN]

RawListings == UNION {[1..n -> RawSchedules] : n \in 0..MaxSchedules}

\* _parse_schedule(raw) raises
ParseRaises(raw) == raw.kind \in {"unparseable", "not_an_object"}

\* raw.get('id', '?') in the handler of line 56 raises AttributeError
HandlerRaises(raw) == raw.kind = "not_an_object"

\* is_ready: start_time <= current_time (schedule_checker.py line 104) raises
\* TypeError for an aware start_time, once the date checks have passed
ReadyRaises(raw) == raw.kind = "aware_window" /\ raw.due

\* the positions of the listing whose record is in the set, in order
Positions(listing, records) ==
    LET At(k) == listing[k] \in records
    IN SelectSeq([k \in 1..Len(listing) |-> k], At)

\* the records that schedules.append(_parse_schedule(raw)) keeps
Parsed == {raw \in RawSchedules : ~ParseRaises(raw)}

\* step 1, lines 43-48: the listing, served or not
K_List ==
    /\ kpc = "idle"
    /\ \E ok \in BOOLEAN :
          IF ok THEN kpc' = "parse" /\ UNCHANGED kcalls
          ELSE /\ kpc' = "returned"
               /\ kcalls' = Append(kcalls, [schedule |-> 0, outcome |-> "list_failed"])
    /\ UNCHANGED <<kraw, kready, kpos, created_jobs>>

\* step 2, lines 50-56: the parse loop; the except clause reads raw.get
K_Parse ==
    /\ kpc = "parse"
    /\ IF \E k \in 1..Len(kraw) : HandlerRaises(kraw[k])
       THEN kpc' = "raised" /\ UNCHANGED kready
       ELSE kpc' = "filter" /\ kready' = Positions(kraw, Parsed)
    /\ UNCHANGED <<kraw, kpos, kcalls, created_jobs>>

\* step 3, lines 58-62: get_ready_schedules, outside any try
K_Filter ==
    /\ kpc = "filter"
    /\ LET IsReady(k) == kraw[k].due
           ready == SelectSeq(kready, IsReady)
       IN IF \E i \in 1..Len(kready) : ReadyRaises(kraw[kready[i]])
          THEN kpc' = "raised" /\ UNCHANGED <<kready, kpos>>
          ELSE /\ kready' = ready
               /\ kpos' = 1
               /\ kpc' = IF ready = <<>> THEN "returned" ELSE "execute"
    /\ UNCHANGED <<kraw, kcalls, created_jobs>>

\* what _execute_schedule can come to (lines 97-140): create_job raises
\* (None returned), list_jobs raises (caught at line 71), the entity is not
\* found (None returned), or the batch ran and the job id is returned
ExecuteOutcomes == {"create_failed", "locate_raised", "not_found", "executed"}

\* step 4, lines 66-72: one turn of the loop over ready
K_Execute ==
    /\ kpc = "execute"
    /\ kpos <= Len(kready)
    /\ \E outcome \in ExecuteOutcomes :
          /\ kcalls' = Append(kcalls, [schedule |-> kready[kpos], outcome |-> outcome])
          /\ created_jobs' = IF outcome = "executed"
                             THEN Append(created_jobs, kready[kpos]) ELSE created_jobs
    /\ kpos' = kpos + 1
    /\ UNCHANGED <<kpc, kraw, kready>>

\* line 74
K_Return ==
    /\ kpc = "execute"
    /\ kpos > Len(kready)
    /\ kpc' = "returned"
    /\ UNCHANGED <<kraw, kready, kpos, kcalls, created_jobs>>

InitTick ==
    /\ SEIdle /\ Reliable /\ EngIdle /\ job = NewJob /\ BatchIdle /\ SchedIdle /\ ChkIdle
    /\ ExecIdle /\ PatchIdle /\ SuccIdle /\ TicketIdle /\ RecurIdle
    /\ kpc = "idle"
    /\ kraw \in RawListings
    /\ kready = <<>> /\ kpos = 0 /\ kcalls = <<>> /\ created_jobs = <<>>

TickRest ==
    UNCHANGED <<seVars, envVars, engVars, job, batchVars, schedVars, chkVars, execVars,
                patchVars, succVars, ticketVars, recurVars>>

NextTick ==
    \/ K_List /\ TickRest
    \/ K_Parse /\ TickRest
    \/ K_Filter /\ TickRest
    \/ K_Execute /\ TickRest
    \/ K_Return /\ TickRest

SpecTick == InitTick /\ [][NextTick]_vars


(***************************************************************************)
(* Claims on the state machine                                             *)
(***************************************************************************)

\* the legal edges of the Solution automaton as the design lists them (section 4.2)
LegalSuccessors(s) ==
    CASE s = "DETECTED" -> {"VALIDATING"}
      [] s = "VALIDATING" -> {"VALIDATED", "SKIPPED", "FAILED"}
      [] s = "VALIDATED" -> {"DELETING_SM_DATA"}
      [] s = "DELETING_SM_DATA" -> {"MIGRATING", "DELETE_FAILED"}
      [] s = "DELETE_FAILED" -> {"FAILED"}
      [] s = "MIGRATING" -> {"WAITING_CONFIRMATION", "MIGRATION_FAILED"}
      [] s = "WAITING_CONFIRMATION" -> {"CONFIRMED", "MIGRATION_FAILED"}
      [] s = "MIGRATION_FAILED" -> {"FAILED"}
      [] s = "CONFIRMED" -> {"POST_UPDATE"}
      [] s = "POST_UPDATE" -> {"COMPLETED", "POST_UPDATE_FAILED"}
      [] s = "POST_UPDATE_FAILED" -> {"FAILED"}
      [] OTHER -> {}

\* C2: transition(target, reason) succeeds iff target is a legal successor of the
\* current state; otherwise it raises InvalidTransitionError carrying the current
\* and the target state, and current_state, state_history and error are exactly
\* what they were before the call.
C2_TransitionLegalOrUntouched ==
    seCall.target # None =>
        LET b == seCall.before IN
        /\ seCall.raised <=> seCall.target \notin LegalSuccessors(b.current_state)
        /\ seCall.raised =>
              /\ seCall.exc = [current |-> b.current_state, target |-> seCall.target]
              /\ se = b
        /\ ~seCall.raised =>
              /\ se.current_state = seCall.target
              /\ se.state_history =
                    Append(b.state_history, <<b.current_state, seCall.target, seCall.reason>>)

\* an illegal call on an engine that already has history and an error
C2_Witness ==
    /\ seCall.target # None
    /\ seCall.raised
    /\ se.current_state = "FAILED"
    /\ se.error = "r2"
    /\ Len(se.state_history) = 5

\* C3: in both automata a state is terminal iff it has no legal successor; every
\* state of the enumeration has an entry in the transition table; a transition
\* attempted from a terminal state is rejected.
C3_TerminalIffNoSuccessor ==
    /\ TERMINAL_STATES = {"COMPLETED", "SKIPPED", "FAILED"}
    /\ OE_TERMINAL_STATES = {"REMEDIATED", "NOT_IMPACTED", "SKIPPED", "FAILED"}
    /\ \A s \in RemediationState :
          /\ s \in DOMAIN VALID_TRANSITIONS
          /\ s \in TERMINAL_STATES <=> VALID_TRANSITIONS[s] = {}
    /\ \A s \in OERemediationState :
          /\ s \in DOMAIN OE_VALID_TRANSITIONS
          /\ s \in OE_TERMINAL_STATES <=> OE_VALID_TRANSITIONS[s] = {}
    /\ is_terminal(se) => \A t \in RemediationState : ~can_transition(se, t)
    /\ ~is_terminal(se) => \E t \in RemediationState : can_transition(se, t)
    /\ (seCall.target # None /\ seCall.before.current_state \in TERMINAL_STATES) =>
          seCall.raised /\ se = seCall.before

\* a transition was attempted from the terminal state SKIPPED
C3_Witness ==
    /\ seCall.target # None
    /\ seCall.before.current_state = "SKIPPED"
    /\ seCall.target = "VALIDATING"
    /\ seCall.raised


(***************************************************************************)
(* Claims on RemediationEngine.remediate (SpecEngine)                      *)
(***************************************************************************)
OpOrder == <<"validate", "delete", "migrate", "poll", "post_update">>

StepOrder == <<"VALIDATE", "DELETE", "MIGRATE", "POLL", "POST_UPDATE">>

\* the remote operations were invoked in the order of the flow, each at most
\* once (a run of polls counts once)
CallsInOrder ==
    /\ Len(calls) <= Len(OpOrder)
    /\ \A k \in 1..Len(calls) : calls[k].op = OpOrder[k]

\* an operation was invoked only after the previous one returned successfully
\* (for post_update: after a poll confirmed the migration)
EarlierSucceeded == \A k \in 2..Len(calls) : calls[k - 1].outcome = "ok"

AllFiveSucceeded ==
    /\ Len(calls) = Len(OpOrder)
    /\ \A k \in 1..Len(calls) : calls[k].outcome = "ok"

HappyEnd ==
    (epc = "done" /\ AllFiveSucceeded) =>
        /\ eres.final_state = "COMPLETED"
        /\ eres.success
        /\ Len(steps) = Len(StepOrder)
        /\ \A k \in 1..Len(steps) : steps[k].action = StepOrder[k] /\ steps[k].success

\* C1 as claimed: the remote operations of one item are invoked in the order
\* validate, delete, migrate, poll, post_update, each at most once except poll,
\* each only after the earlier step returned successfully, delete only when the
\* item was eligible; when all five succeed the item ends COMPLETED with five
\* successful step results.
C1_Original ==
    /\ CallsInOrder
    /\ EarlierSucceeded
    /\ Len(calls) >= 2 => vinfo.eligible
    /\ HappyEnd

\* C1 as amended: as above, but delete is invoked when validate succeeded and
\* the item was eligible or the caller passed skip_validation.
C1_OrderedAndGated ==
    /\ CallsInOrder
    /\ EarlierSucceeded
    /\ Len(calls) >= 2 => (vinfo.eligible \/ ein.skip_validation)
    /\ HappyEnd

\* all five operations succeeded for an ineligible item under skip_validation
C1_Witness ==
    /\ epc = "done"
    /\ AllFiveSucceeded
    /\ ein.skip_validation
    /\ ~vinfo.eligible
    /\ eres.final_state = "COMPLETED"

NoConclusivePoll ==
    \A k \in 1..Len(calls) : calls[k].op = "poll" => calls[k].outcome \in {"pending", "raise"}

TimedOutFailed ==
    /\ epc = "done"
    /\ poll.timed_out
    /\ eres.final_state = "FAILED"
    /\ eres.failed_at = "POLL"
    /\ eres.message = "Polling timed out"
    /\ \E k \in 1..Len(eres.state_history) :
          /\ eres.state_history[k][1] = "WAITING_CONFIRMATION"
          /\ eres.state_history[k][2] = "MIGRATION_FAILED"

\* C9: for every setting of the polling parameters, if no poll ever returns a
\* status in {COMPLETED, SUCCESS, FAILED, ERROR}, the POLL loop stops after
\* finitely many polls with a timeout and the item ends FAILED via
\* MIGRATION_FAILED with failed_at = POLL and a message mentioning the timeout.
C9_PollLoopTimesOut ==
    ([]NoConclusivePoll) => ((epc = "poll") ~> TimedOutFailed)

\* C10: max_duration is a hard cap on the POLL step: the total time slept in
\* _step_poll (initial_delay plus all backoff waits) never exceeds max_duration.
C10_SleepWithinMaxDuration == poll.slept <= ecfg.max_duration


(***************************************************************************)
(* Claims on the batch executors (SpecBatch)                               *)
(***************************************************************************)
\* the sum of the counters of the per-item terminal states (section 3)
TerminalTotal(s) ==
    IF bin.variant = "solution"
    THEN s.successful + s.failed + s.skipped
    ELSE s.remediated + s.not_impacted + s.skipped + s.failed

\* C4: every summary a batch executor (Solution or OE, dry runs included)
\* stores in the tracking entity during execute_batch satisfies
\* pending + (sum of the terminal counters) = total.
C4_PublishedSummaryBalanced ==
    \A k \in 1..Len(job.x_summary) :
        job.x_summary[k].pending + TerminalTotal(job.x_summary[k]) = job.x_summary[k].total

\* the terminal per-item states (section 4.2)
PerItemTerminals ==
    IF bin.variant = "solution"
    THEN {"COMPLETED", "SKIPPED", "FAILED"}
    ELSE {"REMEDIATED", "NOT_IMPACTED", "SKIPPED", "FAILED"}

\* items start in the order of the input list, one at a time; a remote call is
\* made for an item only when every earlier item has its result, and every
\* result carries a state of the set `ends`
OneAtATimeInOrder(ends) ==
    /\ Len(started) <= Len(bin.ids)
    /\ \A k \in 1..Len(started) : started[k] = bin.ids[k]
    /\ Len(results) <= Len(started)
    /\ Len(started) <= Len(results) + 1
    /\ \A k \in 1..Len(results) :
          results[k].item = started[k] /\ results[k].final_state \in ends
    /\ \A k \in 1..Len(calls) :
          /\ Len(started) = Len(results) + 1
          /\ calls[k].item = started[Len(started)]

\* C5 as claimed: within one execute_batch call items are processed in the
\* order of the input list, one at a time: item i+1 is not started (no remote
\* call is made for it) before the engine has returned for item i with a
\* terminal per-item state.
C5_Original == OneAtATimeInOrder(PerItemTerminals)

\* C5 as amended: as above, where the engine returns for item i with a
\* terminal per-item state, or with VALIDATED in an OE dry run.
C5_OneAtATimeInOrder ==
    OneAtATimeInOrder(PerItemTerminals
                      \cup (IF bin.variant = "oe" /\ bin.dry_run THEN {"VALIDATED"} ELSE {}))

\* the second item of a reversed list has its first remote call made, after a
\* dry run left the first item in VALIDATED
C5_Witness ==
    /\ bpc = "item"
    /\ bin.ids = <<"i2", "i1">>
    /\ started = <<"i2", "i1">>
    /\ Len(results) = 1
    /\ results[1].final_state = "VALIDATED"
    /\ calls # <<>>

CountOf(st) == Cardinality({k \in 1..Len(results) : results[k].final_state = st})

\* every result is counted in the summary
Counted ==
    /\ summary.total - summary.pending = Len(results)
    /\ IF bin.variant = "solution"
       THEN /\ summary.successful = CountOf("COMPLETED")
            /\ summary.skipped = CountOf("SKIPPED")
            /\ summary.failed = CountOf("FAILED")
       ELSE /\ summary.remediated = CountOf("REMEDIATED")
            /\ summary.not_impacted = CountOf("NOT_IMPACTED")
            /\ summary.skipped = CountOf("SKIPPED")
            /\ summary.failed = CountOf("FAILED")

PastLoop == bpc \in {"final", "final_update", "done"}

\* every started item ran its whole flow, is in results and is counted
StartedItemsFinished ==
    PastLoop =>
        /\ Len(results) = Len(started)
        /\ \A k \in 1..Len(results) :
              /\ results[k].item = started[k]
              /\ results[k].final_state \in PerItemTerminals \cup {"VALIDATED"}
        /\ Counted

\* the flag is examined between items only: an item is started only while the
\* flag is not set, and the loop is left once it was seen set
NoStartOnceSet ==
    /\ [][started' # started => ~cancelled]_vars
    /\ [][(observed /\ PastLoop) => (PastLoop' /\ started' = started)]_vars

\* the final update sets the entity to cancelled
FinalisedCancelled ==
    /\ final_state = "cancelled"
    /\ bin.job_id # None => job.state = "cancelled"

RunningTicks == {k \in 1..Len(ticks) : ticks[k].status = "running"}

\* C7: at any instant, under any interleaving of the periodic scheduler loop,
\* POST /execute and POST /scheduler/start and /scheduler/stop requests, at
\* most one Scheduler.check_and_execute tick is executing.
C7_AtMostOneTick == Cardinality(RunningTicks) <= 1


(***************************************************************************)
(* Claims on the schedule evaluator (SpecChecker)                          *)
(***************************************************************************)
\* the offset of a timezone name; an invalid name is treated as UTC, and a
\* naive date is read as UTC (section 4.6)
UtcOffset(tz) == IF tz = "Asia/Kuala_Lumpur" THEN 8 ELSE 0

\* the inclusive window of section 3
InWindow(t, start, end) ==
    IF start <= end THEN start <= t /\ t <= end ELSE t >= start \/ t <= end

\* is_due(schedule, now) of section 4.6
IsDue(schedule, now) ==
    /\ schedule.is_active
    /\ schedule.next_execution_date.set
    /\ schedule.next_execution_date.wall - UtcOffset(schedule.next_execution_date.tzinfo) <= now
    /\ InWindow((now + UtcOffset(schedule.timezone)) % 24,
                schedule.window_start_time, schedule.window_end_time)

\* the instant of an is_ready call: the last reading of the clock it made, or
\* the instant of the call when it made none
Instant == IF creads = <<>> THEN cnow ELSE Last(creads)

\* C8: is_ready(schedule) at instant now is true iff the schedule is active,
\* next_execution_date is set and <= now, and the time of day of now in the
\* schedule's timezone lies in the inclusive window (start <= t <= end when
\* start <= end; t >= start or t <= end when start > end); for start = end it
\* is true only when the time of day equals start. The instant now is the last
\* reading of the clock the call made.
C8_ReadyIffDue ==
    cpc = "done" =>
        /\ (cready = "True") <=> IsDue(csched, Instant)
        /\ (cready = "True" /\ csched.window_start_time = csched.window_end_time) =>
              (Instant + UtcOffset(csched.timezone)) % 24 = csched.window_start_time

\* a schedule in Kuala Lumpur with a window across midnight is found ready on
\* the last hour of the window
C8_Witness ==
    /\ cpc = "done"
    /\ cready = "True"
    /\ csched.timezone = "Asia/Kuala_Lumpur"
    /\ csched.window_start_time = 22
    /\ csched.window_end_time = 6
    /\ (Last(creads) + 8) % 24 = 6
    /\ csched.next_execution_date.tzinfo = None


(***************************************************************************)
(* Claims on the error handling of remediate() (SpecEngine)                *)
(***************************************************************************)
\* remediate() has returned and its last remote call was post_update, which is
\* invoked only once POLL has confirmed the migration
PostUpdateDone ==
    /\ epc = "done"
    /\ calls # <<>>
    /\ Last(calls).op = "post_update"

\* C11: once POLL has confirmed the migration the item ends COMPLETED with
\* success = true and failed_at = null whatever post_update does, and every
\* post-update failure (a raised error, or a response whose normalised success
\* is false) is recorded as a POST_UPDATE step result with success = false.
C11_PostUpdateNonFatal ==
    PostUpdateDone =>
        /\ eres.final_state = "COMPLETED"
        /\ eres.success
        /\ eres.failed_at = None
        /\ Last(steps).action = "POST_UPDATE"
        /\ Last(calls).outcome # "ok" => ~Last(steps).success

\* the action name of a remote operation
ActionOf(op) ==
    CASE op = "validate" -> "VALIDATE"
      [] op = "delete" -> "DELETE"
      [] op = "migrate" -> "MIGRATE"
      [] op = "poll" -> "POLL"
      [] OTHER -> "POST_UPDATE"

\* remediate() has returned after its VALIDATE, DELETE or MIGRATE call did not
\* succeed (it raised, or returned success = false)
EarlyStepFailed ==
    /\ epc = "done"
    /\ calls # <<>>
    /\ Last(calls).op \in {"validate", "delete", "migrate"}
    /\ Last(calls).outcome \in {"raise", "fail"}

\* the per-item outcome of a failure at the step of the last call
FailedAtLastCall ==
    /\ eres.final_state = "FAILED"
    /\ eres.failed_at = ActionOf(Last(calls).op)
    /\ steps # <<>>
    /\ Last(steps).action = ActionOf(Last(calls).op)
    /\ ~Last(steps).success
    /\ ein.service_problem_id # None =>
          /\ Len(spLog) = 1
          /\ spLog[1].status = "rejected"
          /\ spLog[1].state = "FAILED"

\* C12: at each of VALIDATE, DELETE and MIGRATE a transport exception raised by
\* the remote call yields the same per-item outcome as a response with
\* success = false: final state FAILED, failed_at the action name of the step,
\* a failed step result for that action, and the ticket updated rejected/FAILED.
C12_ExceptionAsProtocolFailure == EarlyStepFailed => FailedAtLastCall


(***************************************************************************)
(* Claims on failing tracking-entity and ticket updates (SpecFaulty)       *)
(***************************************************************************)
\* no exception of an update call left the try block around it
NoUpdateEscaped ==
    /\ ~job.escaped
    /\ \A k \in 1..Len(spLog) : spLog[k].fate # "escaped"

\* the state a Solution item ends in, read off its remote remediation calls
SolutionFinal ==
    IF Last(calls).op = "post_update" THEN "COMPLETED"
    ELSE IF Last(calls).op = "validate" /\ Last(calls).outcome = "ok" THEN "SKIPPED"
    ELSE "FAILED"

\* the per-item result follows from the remote remediation calls alone
ResultFollowsCalls ==
    /\ (bin.variant = "solution" /\ epc = "done") =>
          /\ calls # <<>>
          /\ eres.final_state = SolutionFinal
          /\ eres.success <=> SolutionFinal = "COMPLETED"
    /\ (bin.variant = "oe" /\ opc = "done") =>
          /\ calls # <<>>
          /\ ores.final_state \in PerItemTerminals
          /\ ores.final_state = "REMEDIATED" =>
                /\ Last(calls).op = "trigger_oe_remediation"
                /\ Last(calls).outcome = "ok"
          /\ (/\ Last(calls).op \in {"update_oe_attachment", "trigger_oe_remediation"}
              /\ Last(calls).outcome \in {"raise", "fail"}) => ores.final_state = "FAILED"

\* C13: an update_job or update_service_problem call that raises is logged and
\* ignored: it never leaves execute_batch, and the per-item results, the
\* summary counters, the number of items processed and their order are what
\* the remote remediation calls and the input list determine.
C13_SecondaryFailuresIgnored ==
    /\ NoUpdateEscaped
    /\ ResultFollowsCalls
    /\ OneAtATimeInOrder(PerItemTerminals)
    /\ bpc # "begin" => Counted
    /\ (bpc = "done" /\ ~observed) => Len(results) = Len(ToProcess)

\* a Solution batch of two ran to its end although every update_job call that
\* writes the state raised and the ticket update of the completed first item
\* raised
C13_Witness ==
    /\ faulty
    /\ bin.variant = "solution"
    /\ bpc = "done"
    /\ job.state = "pending"
    /\ Len(results) = 2
    /\ results[1].final_state = "COMPLETED"
    /\ spLog # <<>>
    /\ spLog[1].fate = "caught"
    /\ spLog[1].status = "resolved"


(***************************************************************************)
(* Claims on the final update of execute_batch (SpecBatch)                 *)
(***************************************************************************)
\* the success counter of the variant
SuccessCounter == IF bin.variant = "solution" THEN summary.successful ELSE summary.remediated

\* the state the final update has to write
FinalStateRule ==
    IF observed THEN "cancelled"
    ELSE IF summary.failed > 0 /\ SuccessCounter = 0 THEN "failed"
    ELSE "completed"

\* C14: the state written by the final tracking-entity update of execute_batch
\* is cancelled if cancellation was observed; otherwise failed iff the failed
\* counter is > 0 and the success counter (successful for Solution, remediated
\* for OE) is 0; otherwise completed.
C14_FinalStateRule ==
    /\ bpc \in {"final_update", "done"} => final_state = FinalStateRule
    /\ (bpc = "done" /\ bin.job_id # None) => job.state = FinalStateRule

\* a batch of two that was not cancelled ended failed with one item failed and
\* one skipped
C14_Witness ==
    /\ bpc = "done"
    /\ ~observed
    /\ bin.job_id # None
    /\ job.state = "failed"
    /\ Len(results) = 2
    /\ summary.failed = 1
    /\ summary.skipped = 1

\* C15: whenever a batch executor writes a terminal state (completed,
\* cancelled or failed) to the tracking entity, the summary written with it has
\* pending = 0.
C15_TerminalPendingZero ==
    job.state \in {"completed", "cancelled", "failed"} =>
        /\ job.x_summary # <<>>
        /\ job.x_summary[1].pending = 0


(***************************************************************************)
(* Claims on schedule executions (SpecExec)                                *)
(***************************************************************************)
\* C16: for every schedule execution, every max_batch_size (0 included) and
\* every list returned by discovery, the number of items processed is at most
\* schedule.max_batch_size, so the tracking entity's actual_quantity never
\* exceeds its requested_quantity.
C16_AtMostMaxBatchSize ==
    /\ \A k \in 1..Len(xjobs) : xjobs[k].actualQuantity <= xjobs[k].requestedQuantity
    /\ \A e \in 1..Len(execs) :
          execs[e].pc \in {"stats", "done"} /\ execs[e].job_id # 0 =>
              execs[e].summary.total <= execs[e].snap.max_batch_size

\* the execution recorded zero failed items
ZeroFailed(e) == execs[e].summary.failed = 0

\* C19: after each schedule execution whose statistics update succeeds,
\* total_executions has increased by exactly 1 and exactly one of
\* successful_executions and failed_executions has increased by 1: successful
\* iff the batch recorded zero failed items; an execution that discovers no
\* item, or whose discovery fails, counts as successful.
C19_CountersStepByOne ==
    \A e \in 1..Len(execs) :
        execs[e].stats = "served" =>
            LET b == execs[e].before
                a == execs[e].after
            IN
            /\ a.total_executions = b.total_executions + 1
            /\ IF execs[e].exec_success
               THEN /\ a.successful_executions = b.successful_executions + 1
                    /\ a.failed_executions = b.failed_executions
               ELSE /\ a.failed_executions = b.failed_executions + 1
                    /\ a.successful_executions = b.successful_executions
            /\ execs[e].exec_success <=> ZeroFailed(e)
            /\ execs[e].ids = <<>> => execs[e].exec_success

\* C20: the counters total_executions, successful_executions and
\* failed_executions stored in the runtime never decrease under any
\* interleaving of ticks and manual triggers that execute the same schedule,
\* and total_executions = successful_executions + failed_executions is
\* preserved.
C20_CountersMonotonic ==
    /\ [][/\ xsched'.total_executions >= xsched.total_executions
           /\ xsched'.successful_executions >= xsched.successful_executions
           /\ xsched'.failed_executions >= xsched.failed_executions]_vars
    /\ [](xsched.total_executions
            = xsched.successful_executions + xsched.failed_executions)


(***************************************************************************)
(* Claims on the problem-ticket updates (SpecBatch)                        *)
(***************************************************************************)
\* the update_service_problem calls made for an item
UpdatesOf(id) == {k \in 1..Len(spLog) : spLog[k].item = id}

\* the ticket status the Solution variant writes for a final state
SolutionTicketStatus(final) == IF final = "COMPLETED" THEN "resolved" ELSE "rejected"

\* the item whose remediate() call is running
Running == bpc = "item" /\ epc # "done"

FinalUpdateOf(id) == spLog[CHOOSE u \in UpdatesOf(id) : \A v \in UpdatesOf(id) : v <= u]

\* the ticket status of section 4.5 step 5
ClaimedTicketStatus(final) ==
    CASE final \in {"COMPLETED", "REMEDIATED"} -> "resolved"
      [] final \in {"NOT_IMPACTED", "SKIPPED"} -> "closed"
      [] final = "FAILED" -> IF bin.variant = "solution" THEN "rejected" ELSE "pending"

\* the same, with SKIPPED mapped to rejected in the Solution variant
AmendedTicketStatus(final) ==
    IF bin.variant = "solution" /\ final = "SKIPPED" THEN "rejected"
    ELSE ClaimedTicketStatus(final)

\* every item that ended in a terminal state and has a ticket had its ticket
\* last set to status(final state), with the final state as remediation_state
FinalTicketUpdates(status(_)) ==
    \A k \in 1..Len(results) :
        LET id == results[k].item
            final == results[k].final_state
        IN
        (TicketOf(id) # None /\ final \in PerItemTerminals) =>
            /\ UpdatesOf(id) # {}
            /\ FinalUpdateOf(id).status = status(final)
            /\ FinalUpdateOf(id).state = final

\* C18 as claimed: for both variants the final problem-ticket update of an item
\* maps the terminal state to the ticket status as COMPLETED or REMEDIATED ->
\* resolved, NOT_IMPACTED or SKIPPED -> closed, FAILED -> rejected for Solution
\* and pending for OE, and writes the terminal state as remediation_state.
C18_Original == FinalTicketUpdates(ClaimedTicketStatus)

\* C18 as amended: as above, except that the Solution variant maps SKIPPED to
\* rejected (closed is written for NOT_IMPACTED and SKIPPED by the OE variant
\* only).
C18_FinalTicketStatus == FinalTicketUpdates(AmendedTicketStatus)

\* an OE item with a ticket failed: its ticket went to inProgress/VALIDATING
\* and then to pending/FAILED
C18_Witness ==
    /\ bin.variant = "oe"
    /\ bpc = "done"
    /\ results # <<>>
    /\ results[1] = [item |-> "i1", final_state |-> "FAILED"]
    /\ Cardinality(UpdatesOf("i1")) = 2
    /\ FinalUpdateOf("i1").status = "pending"
    /\ FinalUpdateOf("i1").state = "FAILED"

(***************************************************************************)
(* Claims on the end of the scheduler loop (FairSpecSched)                 *)
(*                                                                         *)
(* FairSpecSched: the event loop runs every task that can run, a sleep     *)
(* ends, a worker thread reaches the end of check_and_execute, and a       *)
(* handler suspended in "await scheduler_task" resumes. Requests           *)
(* (H_Start, H_StopBegin, H_Execute) arrive or not.                        *)
(***************************************************************************)
FairSpecSched ==
    /\ SpecSched
    /\ WF_vars(L_Iterate /\ SchedRest)
    /\ WF_vars(L_TickDone /\ SchedRest)
    /\ WF_vars(L_Cancelled /\ SchedRest)
    /\ WF_vars(T_Finish /\ SchedRest)
    /\ WF_vars(H_StopResume /\ SchedRest)

\* loop task t exists and has not ended
Live(t) == t <= Len(tasks) /\ tasks[t].pc # "done"

\* the running flag is false, or cancel() was called on the task
StopRequested(t) == Live(t) /\ (~scheduler_running \/ tasks[t].cancel_req)

\* loop task t has started tick number k of ticks as its latest tick (0: none)
LatestTick(t, k) == t <= Len(tasks) /\ tasks[t].tick = k

NoFurtherTick ==
    \A t \in 1..MaxTasks, k \in 0..MaxTicks :
        [](StopRequested(t) /\ LatestTick(t, k) => []LatestTick(t, k))

LoopExits ==
    \A t \in 1..MaxTasks : StopRequested(t) ~> (t <= Len(tasks) /\ ~Live(t))

\* tick number k is executing in its worker thread
TickRunning(k) == k <= Len(ticks) /\ ticks[k].status = "running"

TickInFlightCompletes ==
    \A t \in 1..MaxTasks, k \in 1..MaxTicks :
        (StopRequested(t) /\ LatestTick(t, k) /\ TickRunning(k)) ~> ~TickRunning(k)

Sleeping(t) == tasks[t].pc = "sleeping"

\* C22: after a tick that took longer than scheduler_interval_seconds the
\* loop does not sleep the interval again: its next tick starts at once.
C22_NoSleepAfterLongTick ==
    \A t \in 1..Len(tasks) :
        (Sleeping(t) /\ tasks[t].took > scheduler_interval_seconds)
            => tasks[t].sleep_for = 0

(***************************************************************************)
(* Claims on the cycle record of the scheduler loop (SpecSched)            *)
(***************************************************************************)
\* the ticks a loop task is waiting for
TicksAwaited == {tasks[t].tick : t \in {u \in 1..Len(tasks) : tasks[u].pc = "await_tick"}}

\* the ticks started by a loop that have ended and that no loop waits for
LoopTicksOver ==
    {k \in 1..Len(ticks) : /\ ticks[k].owner = "loop"
                           /\ ticks[k].status # "running"
                           /\ k \notin TicksAwaited}

CyclesCounted == total_cycles = Cardinality(LoopTicksOver)

OneOfResultAndError ==
    LoopTicksOver # {} => ((last_cycle_result = None) # (last_cycle_error = None))

\* a loop that resumes from a tick that raised records the error and sleeps
\* the interval
ExceptionKeepsLoop ==
    \A t \in 1..Len(tasks) :
        (/\ tasks[t].pc = "await_tick"
         /\ ~tasks[t].cancel_req
         /\ ticks[tasks[t].tick].status = "raised"
         /\ tasks'[t].pc # "await_tick")
            => /\ tasks'[t].pc = "sleeping"
               /\ tasks'[t].sleep_for = scheduler_interval_seconds
               /\ last_cycle_error' = "error"

\* C23: a tick that raises does not end the loop, it is recorded as
\* last_cycle_error and the loop sleeps the interval; every tick a loop ran,
\* one that was in flight when the loop was stopped included, adds exactly 1
\* to total_cycles and leaves exactly one of last_cycle_result and
\* last_cycle_error set.
C23_EveryTickRecorded ==
    /\ [](CyclesCounted /\ OneOfResultAndError)
    /\ [][ExceptionKeepsLoop]_vars

(***************************************************************************)
(* Claims on the remote writes of OEExecutor.remediate (SpecBatch)         *)
(***************************************************************************)
\* OEExecutor.remediate has returned for the current item of an OE batch
OEReturned == bin.variant = "oe" /\ opc = "done"

\* the calls of the current item to one of the operations ops
CallsTo(ops) == {k \in 1..Len(calls) : calls[k].op \in ops}

WriteOps == {"update_oe_attachment", "trigger_oe_remediation"}

\* C24: an item that ends NOT_IMPACTED, SKIPPED or (under dry_run) VALIDATED
\* has made no update_oe_attachment and no trigger_oe_remediation call, and a
\* dry run that ends VALIDATED returns the fields that would be patched.
C24_NoWriteWithoutRemediation ==
    OEReturned =>
        /\ ores.final_state \in {"NOT_IMPACTED", "SKIPPED", "VALIDATED"}
              => CallsTo(WriteOps) = {}
        /\ ores.final_state = "VALIDATED" => bin.dry_run /\ ores.fields_patched
        /\ bin.dry_run => CallsTo(WriteOps) = {}

\* a dry run found a field to patch and stopped after the enrichment lookup
C24_Witness ==
    /\ OEReturned
    /\ bin.dry_run
    /\ ores.final_state = "VALIDATED"
    /\ ores.fields_patched
    /\ Len(calls) = 2
    /\ calls[2].op = "get_oe_enrichment_data"

\* the current item has a call to op with one of the outcomes
Called(op, outcomes) ==
    \E k \in 1..Len(calls) : calls[k].op = op /\ calls[k].outcome \in outcomes

TriggerAfterUpdate ==
    \A k \in CallsTo({"trigger_oe_remediation"}) :
        \E j \in 1..(k - 1) :
            calls[j].op = "update_oe_attachment" /\ calls[j].outcome = "ok"

\* C25: trigger_oe_remediation is called only after an update_oe_attachment
\* that succeeded for the same service; the item ends REMEDIATED exactly when
\* both calls succeeded, and FAILED without a trigger call when the attachment
\* update raised or returned a failure.
C25_TriggerOnlyAfterUpdate ==
    bin.variant = "oe" =>
        /\ TriggerAfterUpdate
        /\ OEReturned =>
              /\ ores.final_state = "REMEDIATED"
                    <=> /\ Called("update_oe_attachment", {"ok"})
                        /\ Called("trigger_oe_remediation", {"ok"})
              /\ Called("update_oe_attachment", {"raise", "fail"})
                    => /\ ores.final_state = "FAILED"
                       /\ CallsTo({"trigger_oe_remediation"}) = {}

(***************************************************************************)
(* patch_oe_json (oe_executor.py): SET_IF_EMPTY patching of an attachment  *)
(*                                                                         *)
(* An attachment is its NonCommercialProduct list of schema objects, each  *)
(* a schema name and its attributes; an attribute is a name, a value and a *)
(* label, where a missing key is Absent and an empty name stands for a     *)
(* missing one.                                                            *)
(***************************************************************************)
W_Voice_OE == <<"V", "o", "i", "c", "e", " ", "O", "E">>

W_Fibre_Service_OE == <<"F", "i", "b", "r", "e", " ", "S", "e", "r", "v", "i", "c", "e", " ", "O", "E">>

W_eSMS_OE == <<"e", "S", "M", "S", " ", "O", "E">>

W_Access_OE == <<"A", "c", "c", "e", "s", "s", " ", "O", "E">>

OE_SCHEMA_MAPPING(service_type) ==
    CASE service_type = "Voice" -> W_Voice_OE
      [] service_type = "Fibre Service" -> W_Fibre_Service_OE
      [] service_type = "eSMS Service" -> W_eSMS_OE
      [] service_type = "Access Service" -> W_Access_OE
      [] OTHER -> <<>>

W_BillingAccount == <<"B", "i", "l", "l", "i", "n", "g", "A", "c", "c", "o", "u", "n", "t">>

W_Billing_Account == <<"B", "i", "l", "l", "i", "n", "g", " ", "A", "c", "c", "o", "u", "n", "t">>

W_billing_account == <<"b", "i", "l", "l", "i", "n", "g", " ", "a", "c", "c", "o", "u", "n", "t">>

W_PICEmail == <<"P", "I", "C", "E", "m", "a", "i", "l">>

W_PIC_Email == <<"P", "I", "C", " ", "E", "m", "a", "i", "l">>

\* FIELD_NAME_TO_OE.get(ui_name, ui_name), for the fields of the Fibre and
\* Access services
FIELD_NAME_TO_OE(ui_name) ==
    CASE ui_name = W_BillingAccount -> W_Billing_Account
      [] ui_name = W_PICEmail -> W_PIC_Email
      [] OTHER -> ui_name

\* name.lower().replace(" ", "")
Normalized(name) == NoSpaces(lower(name))

\* sub in s
Contains(s, sub) ==
    \E i \in 0..(Len(s) - Len(sub)) : SubSeq(s, i + 1, i + Len(sub)) = sub

\* lines 400-412: the first schema object whose name contains the mapping
\* value of the service type, 0 for none
TargetSchema(ncp, schema_key_substr) ==
    LET hits == {k \in 1..Len(ncp) : /\ schema_key_substr # <<>>
                                     /\ Contains(ncp[k].schema_name, schema_key_substr)}
    IN IF hits = {} THEN 0 ELSE CHOOSE k \in hits : \A j \in hits : k <= j

\* lines 422-425: attr_index[normalized], as the position of the attribute the
\* index holds for that key (the last one with it), 0 for none
attr_index(target_attributes, normalized) ==
    LET hits == {k \in 1..Len(target_attributes) :
                    /\ target_attributes[k].name # <<>>
                    /\ Normalized(target_attributes[k].name) = normalized}
    IN IF hits = {} THEN 0 ELSE CHOOSE k \in hits : \A j \in hits : j <= k

\* line 438: str(existing.get("value", "")).strip()
existing_value(existing) == strip(str(Get(existing.value, JStr(<<>>))))

\* lines 429-459: the loop over fields_to_patch; indexed is the attribute list
\* the index was built from
RECURSIVE ApplyFields(_, _, _, _)
ApplyFields(indexed, target_attributes, patched_names, fields) ==
    IF fields = <<>>
    THEN [attributes |-> target_attributes, names |-> patched_names]
    ELSE LET field == Head(fields)
             ui_name == field.fieldName
             oe_name == FIELD_NAME_TO_OE(ui_name)
             new_value == field.value
             new_label == Get(field.label, new_value)
             k == attr_index(indexed, Normalized(oe_name))
         IN IF k # 0
            THEN IF existing_value(target_attributes[k]) # <<>>
                 THEN ApplyFields(indexed, target_attributes, patched_names, Tail(fields))
                 ELSE ApplyFields(indexed,
                                  [target_attributes EXCEPT ![k].value = new_value,
                                                            ![k].label = new_label],
                                  Append(patched_names, ui_name), Tail(fields))
            ELSE ApplyFields(indexed,
                             Append(target_attributes,
                                    [name |-> oe_name, value |-> new_value,
                                     label |-> new_label]),
                             Append(patched_names, ui_name), Tail(fields))

\* patch_oe_json(oe_json, fields_to_patch, service_type): (patched, patched_names)
patch_oe_json(oe_json, fields_to_patch, service_type) ==
    LET ncp == oe_json.NonCommercialProduct
        t == TargetSchema(ncp, OE_SCHEMA_MAPPING(service_type))
    IN IF ~oe_json.is_list \/ ncp = <<>> \/ t = 0
       THEN [json |-> oe_json, names |-> <<>>]
       ELSE LET r == ApplyFields(ncp[t].attributes, ncp[t].attributes, <<>>,
                                 fields_to_patch)
            IN [json |-> [oe_json EXCEPT !.NonCommercialProduct[t].attributes =
                                             r.attributes],
                names |-> r.names]

\* line 392, patched = deepcopy(oe_json): the object the function writes to
WritesTo == "copy"

(***************************************************************************)
(* SpecPatch: patch_oe_json applied to an attachment, and applied again to *)
(* what it returned, with the instructions _build_patch_instructions can   *)
(* build (fields in the order of MANDATORY_FIELDS, values that are truthy) *)
(***************************************************************************)
MaxAttrs == 2

W_old == <<"o", "l", "d">>

W_new == <<"n", "e", "w">>

W_label == <<"l", "a", "b", "e", "l">>

Blank == <<" ">>

AttrNames == {W_Billing_Account, W_billing_account, W_PIC_Email}

AttrValues == {Absent, JNull, JStr(<<>>), JStr(Blank), JStr(W_old)}

Attributes == [name : AttrNames, value : AttrValues, label : {JStr(W_old)}]

AttrLists == UNION {[1..n -> Attributes] : n \in 0..MaxAttrs}

Attachments ==
    {NoAttachment, [is_list |-> TRUE, NonCommercialProduct |-> <<>>]}
    \cup {[is_list |-> TRUE,
           NonCommercialProduct |-> <<[schema_name |-> W_Access_OE, attributes |-> a]>>] :
             a \in AttrLists}
    \cup {[is_list |-> TRUE,
           NonCommercialProduct |-> <<[schema_name |-> W_Fibre_Service_OE, attributes |-> <<>>],
                                      [schema_name |-> W_Access_OE, attributes |-> a]>>] :
             a \in AttrLists}

\* _build_patch_instructions, lines 577-590: the value is truthy; the label
\* of BillingAccount is the account name or the value, any other label is
\* the value
Instructions(name) ==
    {i \in [fieldName : {name}, value : {JStr(W_new), JStr(Blank)},
            label : {JStr(W_new), JStr(Blank), JStr(W_label)}] :
        \/ i.label = i.value
        \/ name = W_BillingAccount /\ i.label = JStr(W_label)}

InstructionLists ==
    {<<>>}
    \cup {<<i>> : i \in Instructions(W_BillingAccount) \cup Instructions(W_PICEmail)}
    \cup {<<i, j>> : i \in Instructions(W_BillingAccount), j \in Instructions(W_PICEmail)}

PatchCalls ==
    [oe_json : Attachments, fields_to_patch : InstructionLists,
     service_type : {"Access Service", "Fibre Service", "Unknown"}]

\* the caller's object after a call that returned r
AfterCall(obj, r) == IF WritesTo = "input" THEN r.json ELSE obj

P_Apply ==
    /\ pouts = <<>>
    /\ pin.service_type # None
    /\ LET r == patch_oe_json(pin.oe_json, pin.fields_to_patch, pin.service_type) IN
        /\ pouts' = <<r>>
        /\ pobj' = AfterCall(pobj, r)
    /\ UNCHANGED pin

P_Reapply ==
    /\ Len(pouts) = 1
    /\ LET r == patch_oe_json(pouts[1].json, pin.fields_to_patch, pin.service_type) IN
        /\ pouts' = Append(pouts, r)
        /\ UNCHANGED pobj
    /\ UNCHANGED pin

InitPatch ==
    /\ SEIdle /\ Reliable /\ EngIdle /\ job = NewJob /\ BatchIdle /\ SchedIdle /\ ChkIdle
    /\ ExecIdle /\ SuccIdle /\ TicketIdle /\ FlowIdle
    /\ pin \in PatchCalls
    /\ pobj = pin.oe_json
    /\ pouts = <<>>

PatchRest ==
    UNCHANGED <<seVars, envVars, engVars, job, batchVars, schedVars, chkVars, execVars,
                succVars, ticketVars, flowVars>>

NextPatch ==
    \/ P_Apply /\ PatchRest
    \/ P_Reapply /\ PatchRest

SpecPatch == InitPatch /\ [][NextPatch]_vars

(***************************************************************************)
(* Claims on patch_oe_json (SpecPatch)                                     *)
(***************************************************************************)
\* the position of the target schema in the attachment given to the call
PatchTarget ==
    IF pin.oe_json.is_list
    THEN TargetSchema(pin.oe_json.NonCommercialProduct, OE_SCHEMA_MAPPING(pin.service_type))
    ELSE 0

\* the attributes of the target schema before and after the first application
AttrsBefore == pin.oe_json.NonCommercialProduct[PatchTarget].attributes

AttrsAfter == pouts[1].json.NonCommercialProduct[PatchTarget].attributes

\* the instructions that name the attribute a
InstructionsFor(a) ==
    {i \in 1..Len(pin.fields_to_patch) :
        Normalized(FIELD_NAME_TO_OE(pin.fields_to_patch[i].fieldName)) = Normalized(a.name)}

\* absent, null, the empty string or white space only
EmptyValue(v) == v \in {Absent, JNull} \/ (v.kind = "str" /\ strip(v.text) = <<>>)

\* C26: an attribute that exists in the target schema gets the value and the
\* label of the (first) instruction that names it when its value was empty
\* (absent, null, empty or white space), and is left as it was otherwise.
C26_SetIfEmpty ==
    (pouts # <<>> /\ PatchTarget # 0) =>
        \A k \in 1..Len(AttrsBefore) :
            LET a == AttrsBefore[k]
                b == AttrsAfter[k]
                named == InstructionsFor(a)
                first == CHOOSE i \in named : \A j \in named : i <= j
            IN IF named # {} /\ EmptyValue(a.value)
               THEN /\ b.value = pin.fields_to_patch[first].value
                    /\ b.label = pin.fields_to_patch[first].label
                    /\ b.name = a.name
               ELSE b = a

\* C27: a second application of the same instructions to the result of the
\* first patches nothing: it returns no field name and an attachment equal to
\* the one it was given; no application changes the caller's attachment.
C27_Idempotent ==
    /\ pobj = pin.oe_json
    /\ Len(pouts) = 2 =>
          /\ pouts[2].names = <<>>
          /\ pouts[2].json = pouts[1].json

(***************************************************************************)
(* Claims on the enrichment step of OEExecutor.remediate (SpecBatch)       *)
(***************************************************************************)
\* mandatory fields are missing and the enrichment lookup raised or returned
\* nothing usable for them
EnrichmentEmpty ==
    /\ OEReturned
    /\ oinfo.missing
    /\ Called("get_oe_enrichment_data", {"raise", "insufficient"})

C28_Original == EnrichmentEmpty => ores.final_state # "FAILED"

\* C28: with mandatory fields missing and an empty enrichment result the item
\* ends FAILED at stage ENRICH when no patch instruction can be built, and
\* does not fail at that stage when a missing field has a hard-coded value.
C28_FailsOnlyWithoutInstructions ==
    EnrichmentEmpty =>
        IF oinfo.constants
        THEN ores.failure_stage # "ENRICH"
        ELSE ores.final_state = "FAILED" /\ ores.failure_stage = "ENRICH"

\* a service with a missing field that has a hard-coded value was remediated
\* although the enrichment lookup raised
C28_Witness ==
    /\ EnrichmentEmpty
    /\ oinfo.constants
    /\ Called("get_oe_enrichment_data", {"raise"})
    /\ ores.final_state = "REMEDIATED"

(***************************************************************************)
(* SpecSuccess: is_success (remediation_engine.py) and _is_success         *)
(* (oe_executor.py) applied to the success field of one response           *)
(***************************************************************************)
UpperChar(c) ==
    IF \E i \in 1..Len(LowerCase) : LowerCase[i] = c
    THEN UpperCase[CHOOSE i \in 1..Len(LowerCase) : LowerCase[i] = c]
    ELSE c

\* the spellings of the lower-case word w in every mix of letter cases
CaseVariants(w) ==
    {s \in [1..Len(w) -> {w[i] : i \in 1..Len(w)} \cup {UpperChar(w[i]) : i \in 1..Len(w)}] :
        lower(s) = w}

SuccessFields ==
    {JBool(TRUE), JBool(FALSE), JInt(0), JInt(1), JNull, Absent}
    \cup {JStr(s) : s \in CaseVariants(W_true) \cup CaseVariants(W_yes) \cup CaseVariants(W_no)}
    \cup {JStr(W_1), JStr(W_false), JStr(<<>>), JStr(Blank), JStr(<<"0">>),
          JStr(<<" ", "y", "e", "s">>)}

\* bool as the caller sees it
Bool(b) == IF b THEN "True" ELSE "False"

S_Solution ==
    /\ sres.is_success = None
    /\ sres' = [sres EXCEPT !.is_success = Bool(is_success(sresp))]
    /\ UNCHANGED sresp

S_OE ==
    /\ sres._is_success = None
    /\ sres' = [sres EXCEPT !._is_success = Bool(_is_success(sresp))]
    /\ UNCHANGED sresp

InitSuccess ==
    /\ SEIdle /\ Reliable /\ EngIdle /\ job = NewJob /\ BatchIdle /\ SchedIdle /\ ChkIdle
    /\ ExecIdle /\ PatchIdle /\ TicketIdle /\ FlowIdle
    /\ sresp \in SuccessFields
    /\ sres = [is_success |-> None, _is_success |-> None]

SuccessRest ==
    UNCHANGED <<seVars, envVars, engVars, job, batchVars, schedVars, chkVars, execVars,
                patchVars, ticketVars, flowVars>>

NextSuccess ==
    \/ S_Solution /\ SuccessRest
    \/ S_OE /\ SuccessRest

SpecSuccess == InitSuccess /\ [][NextSuccess]_vars

(***************************************************************************)
(* Claims on the normalisation of the success field (SpecSuccess)          *)
(***************************************************************************)
\* C29: both engines read the success field the same way: boolean true and
\* the strings "true", "1" and "yes" in any letter case are a success, every
\* other value and a missing field are a failure.
C29_SameNormalisation ==
    /\ sres.is_success # None => (sres.is_success = "True" <=> Truthy(sresp))
    /\ sres._is_success # None => (sres._is_success = "True" <=> Truthy(sresp))

(***************************************************************************)
(* SpecTicket: TMFClient.update_service_problem (tmf_client.py) against a  *)
(* runtime that serves or refuses each of its three requests               *)
(***************************************************************************)
MaxChars == 2

Characteristics ==
    [name : {"remediationState", "category"}, value : {"DETECTED", "FAILED"}]

CharLists == UNION {[1..n -> Characteristics] : n \in 0..MaxChars}

\* how the GET response carries the characteristic field: a list, a string
\* holding the JSON of the list, or something that is neither (lines 254-261)
CharForms == {"list", "json_string", "unusable"}

\* lines 263-281
merged_chars(existing_chars, remediation_state) ==
    LET new == [name |-> "remediationState", value |-> remediation_state]
        named == {k \in 1..Len(existing_chars) : existing_chars[k].name = "remediationState"}
        replaced == [k \in 1..Len(existing_chars) |->
                        IF k \in named THEN new ELSE existing_chars[k]]
    IN IF named = {} THEN Append(existing_chars, new) ELSE replaced

\* lines 245-281: GET, raise_for_status, and the merge
U_Get ==
    /\ upc = "get"
    /\ \E ok \in BOOLEAN, form \in CharForms :
        IF ~ok
        THEN upc' = "raised" /\ UNCHANGED umerged
        ELSE /\ umerged' = merged_chars(IF form = "unusable" THEN <<>>
                                        ELSE ticket.characteristic,
                                        uin.remediation_state)
             /\ upc' = "patch_status"
    /\ UNCHANGED <<uin, ticket>>

\* lines 283-295: PATCH of the status, raise_for_status
U_PatchStatus ==
    /\ upc = "patch_status"
    /\ \E ok \in BOOLEAN :
        IF ~ok
        THEN upc' = "raised" /\ UNCHANGED ticket
        ELSE /\ ticket' = [ticket EXCEPT !.status = uin.status]
             /\ upc' = "patch_char"
    /\ UNCHANGED <<uin, umerged>>

\* lines 297-313: PATCH of the characteristic inside try/except, and the return
U_PatchCharacteristic ==
    /\ upc = "patch_char"
    /\ \E ok \in BOOLEAN :
        ticket' = IF ok THEN [ticket EXCEPT !.characteristic = umerged] ELSE ticket
    /\ upc' = "returned"
    /\ UNCHANGED <<uin, umerged>>

TicketStatuses == {"pending", "inProgress", "resolved", "rejected"}

InitTicket ==
    /\ SEIdle /\ Reliable /\ EngIdle /\ job = NewJob /\ BatchIdle /\ SchedIdle /\ ChkIdle
    /\ ExecIdle /\ PatchIdle /\ SuccIdle /\ FlowIdle
    /\ uin \in [status : TicketStatuses \ {"pending"},
                remediation_state : {"VALIDATING", "COMPLETED", "FAILED"}]
    /\ ticket \in [status : {"pending", "inProgress"}, characteristic : CharLists]
    /\ upc = "get"
    /\ umerged = <<>>

TicketRest ==
    UNCHANGED <<seVars, envVars, engVars, job, batchVars, schedVars, chkVars, execVars,
                patchVars, succVars, flowVars>>

NextTicket ==
    \/ U_Get /\ TicketRest
    \/ U_PatchStatus /\ TicketRest
    \/ U_PatchCharacteristic /\ TicketRest

SpecTicket == InitTicket /\ [][NextTicket]_vars

(***************************************************************************)
(* Claims on update_service_problem (SpecTicket)                           *)
(***************************************************************************)
\* the ticket has a remediationState characteristic, with the value v only
HoldsRemediationState(v) ==
    /\ \E k \in 1..Len(ticket.characteristic) :
          ticket.characteristic[k].name = "remediationState"
    /\ \A k \in 1..Len(ticket.characteristic) :
          ticket.characteristic[k].name = "remediationState"
              => ticket.characteristic[k].value = v

\* C30: when update_service_problem returns without raising, the ticket holds
\* the new status and the new remediationState characteristic, both.
C30_BothWritten ==
    upc = "returned" =>
        /\ ticket.status = uin.status
        /\ HoldsRemediationState(uin.remediation_state)

(***************************************************************************)
(* Claims on the create-then-locate idiom (SpecExec)                       *)
(***************************************************************************)
\* the name of the draft that execution e posted: "<schedule.name> -
\* Execution <n+1>" with n its snapshot's total_executions
DraftNumber(e) == execs[e].snap.total_executions + 1

\* C31: the id an execution goes on with is that of a record whose name is
\* the name of the draft it posted (parent_schedule_id and the pending state
\* are what the search of lines 106-109 compares).
C31_LocatedMatchesDraft ==
    \A e \in 1..Len(execs) :
        execs[e].job_id # 0 =>
            xjobs[execs[e].job_id].x_executionNumber = DraftNumber(e)

\* C37: the tracking entity an execution drives is the one it created, and
\* no two executions drive the same one.
C37_DrivesItsOwnEntity ==
    /\ \A e \in 1..Len(execs) :
          execs[e].job_id # 0 => execs[e].job_id = execs[e].created
    /\ \A e1, e2 \in 1..Len(execs) :
          (e1 # e2 /\ execs[e1].job_id # 0) => execs[e1].job_id # execs[e2].job_id

(***************************************************************************)
(* Claims on state_history (SpecSE)                                        *)
(***************************************************************************)
\* state_history is a chain of legal edges from DETECTED to current_state
HistoryIsChain ==
    LET h == se.state_history IN
    /\ (h = <<>>) <=> (se.current_state = "DETECTED")
    /\ h # <<>> => h[1][1] = "DETECTED" /\ h[Len(h)][2] = se.current_state
    /\ \A k \in 1..Len(h) : h[k][2] \in ValidTargets(h[k][1])
    /\ \A k \in 1..(Len(h) - 1) : h[k][2] = h[k + 1][1]

\* a call that returns appends its own transition and nothing else; a call
\* that raises leaves state_history as it was
HistoryFollowsCalls ==
    se'.state_history =
        IF seCall'.raised
        THEN se.state_history
        ELSE Append(se.state_history, <<se.current_state, seCall'.target, seCall'.reason>>)

\* C32: after any sequence of transition calls, state_history holds exactly
\* the successful transitions in call order, and it is a chain: it starts at
\* DETECTED, each target is the next source, every entry is a legal edge and
\* the last target is current_state (DETECTED iff the history is empty).
C32_HistoryIsTheChainOfSuccesses ==
    []HistoryIsChain /\ [][HistoryFollowsCalls]_vars

\* a history of five transitions, and the call just made on it raised
C32_Witness ==
    /\ Len(se.state_history) = 5
    /\ se.current_state = "WAITING_CONFIRMATION"
    /\ seCall.raised
    /\ seCall.before = se

(***************************************************************************)
(* SpecEngineAny: one remediate() call with a step callback that can       *)
(* raise, and with failure responses whose "message" is JSON null.         *)
(* response.get("message", default) then returns None, the None becomes    *)
(* the reason of a transition, and StateEngine.get_result (state_engine.py *)
(* lines 107-117) builds a SolutionResult whose state_history is declared  *)
(* list[tuple[str, str, str]] (schemas.py line 112): the model validation  *)
(* raises.                                                                 *)
(***************************************************************************)
\* the two update_service_problem calls of a call that ends in the handlers:
\* the one of the failure branch and the one of the except clause
TwoTicketUpdates ==
    IF ein.service_problem_id = None
    THEN UNCHANGED spLog
    ELSE \E ok1 \in Oks, ok2 \in Oks :
             LET u(ok) == [item |-> ein.solution_id, sp_id |-> ein.service_problem_id,
                           status |-> "rejected", state |-> "FAILED", fate |-> Fate(ok)]
             IN spLog' = Append(Append(spLog, u(ok1)), u(ok2))

\* the failure branch made its transitions (the first with reason None) and
\* its ticket update, get_result raised, the handler attempted a transition
\* from FAILED, set engine.error, updated the ticket again, and its own
\* get_result raised: the exception leaves remediate()
EscapesAfter(path, newSteps, error) ==
    LET tp == TransPath(eng, path) IN
    /\ eng' = [tp.eng EXCEPT !.error = error]
    /\ steps' = newSteps
    /\ TwoTicketUpdates
    /\ epc' = "raised"
    /\ UNCHANGED <<eres, ecfg, ein, poll>>

\* lines 208-222 and 401-412: validate returned failure with message null
E_ValidateNullMessage ==
    /\ epc = "start"
    /\ Call("validate", "fail")
    /\ vinfo' = [returned |-> TRUE, eligible |-> FALSE]
    /\ EscapesAfter(<<<<"VALIDATING", "Starting validation">>, <<"FAILED", None>>>>,
                    Append(steps, StepResult("VALIDATE", FALSE, None, None)),
                    "exception")
    /\ _notify(<<"VALIDATE", "VALIDATE">>)

\* lines 258-283 and 392-400: delete returned failure with message null
E_DeleteNullMessage ==
    /\ epc = "delete"
    /\ Call("delete", "fail")
    /\ UNCHANGED vinfo
    /\ EscapesAfter(<<<<"DELETE_FAILED", None>>, <<"FAILED", "Delete operation failed">>>>,
                    Append(Append(steps, StepResult("DELETE", FALSE, None, None)),
                           StepResult("DELETE", FALSE, "exception", None)),
                    "Invalid transition")
    /\ _notify(<<"DELETE", "DELETE">>)

\* lines 300-326 and 392-400: migrate returned failure with message null
E_MigrateNullMessage ==
    /\ epc = "migrate"
    /\ Call("migrate", "fail")
    /\ UNCHANGED vinfo
    /\ EscapesAfter(<<<<"MIGRATION_FAILED", None>>, <<"FAILED", "Migration failed">>>>,
                    Append(Append(steps, StepResult("MIGRATE", FALSE, None, None)),
                           StepResult("MIGRATE", FALSE, "exception", None)),
                    "Invalid transition")
    /\ _notify(<<"MIGRATE", "MIGRATE">>)

InitEngineAny ==
    /\ SEIdle /\ faulty = TRUE /\ job = NewJob /\ BatchIdle /\ SchedIdle /\ ChkIdle
    /\ ExecIdle /\ UnitIdle
    /\ epc = "start" /\ eng = NewStateEngine
    /\ ecfg \in EngineCfgs
    /\ ein \in [solution_id : {"i1"}, service_problem_id : {None, "sp1"},
                skip_validation : BOOLEAN, on_step : BOOLEAN, job_id : {"j1"}]
    /\ calls = <<>> /\ steps = <<>> /\ eres = NoResult /\ poll = NoPoll
    /\ spLog = <<>> /\ vinfo = NoInfo

NextEngineAny ==
    \/ NextEngine
    \/ E_ValidateNullMessage /\ EngineRest
    \/ E_DeleteNullMessage /\ EngineRest
    \/ E_MigrateNullMessage /\ EngineRest

SpecEngineAny == InitEngineAny /\ [][NextEngineAny]_vars

(***************************************************************************)
(* Claims on the outcome of RemediationEngine.remediate                    *)
(***************************************************************************)
\* the result remediate() returned is terminal and consistent
TerminalResult ==
    epc = "done" =>
        /\ eres.final_state \in TERMINAL_STATES
        /\ eres.success <=> eres.final_state = "COMPLETED"
        /\ (eres.failed_at # None) <=> eres.final_state = "FAILED"

\* remediate() attempted a transition that the state machine rejects
IllegalAttempt ==
    \/ epc = "done" /\ eres.message = "Invalid transition"
    \/ epc = "raised"

\* C33: remediate never raises and never attempts an illegal transition: for
\* every combination of remote responses, remote exceptions and callback
\* exceptions it returns a result whose final_state is COMPLETED, SKIPPED or
\* FAILED, with success iff COMPLETED and failed_at set iff FAILED.
C33_NeverRaises ==
    /\ epc # "raised"
    /\ ~IllegalAttempt
    /\ TerminalResult

(***************************************************************************)
(* Claims on the inconclusive polls of _step_poll (SpecEngine)             *)
(***************************************************************************)
\* a step of the while loop of _step_poll: a poll is made
PollStep == epc = "poll" /\ poll.elapsed < ecfg.max_duration

\* the POLL step goes on: nothing of the item's result moves, the engine
\* waits min(current_interval, max_interval) and multiplies current_interval
PollGoesOn ==
    /\ epc' = "poll" /\ eng' = eng /\ steps' = steps /\ eres' = eres /\ spLog' = spLog
    /\ poll'.elapsed = poll.elapsed + Min(poll.current_interval, ecfg.max_interval)
    /\ poll'.slept = poll.slept + Min(poll.current_interval, ecfg.max_interval)
    /\ poll'.current_interval
          = Min(poll.current_interval * ecfg.backoff_factor, IntervalCap)

\* the POLL step ends without a poll only when elapsed has reached max_duration
PollEndsByTimeout ==
    (epc = "poll" /\ ~PollStep) => (poll'.timed_out /\ Last(steps').status = "TIMEOUT")

\* as stated: a poll that raises or whose status is not one of the four words
\* COMPLETED, SUCCESS, FAILED, ERROR never ends the POLL step
C34_Original ==
    [][(PollStep /\ poll'.last \notin {"COMPLETED", "SUCCESS", "FAILED", "ERROR"})
          => PollGoesOn]_vars

\* C34: a poll that raises, or whose status is, whatever its case, none of
\* COMPLETED, SUCCESS, FAILED, ERROR (a missing status included), never ends
\* the POLL step: the engine waits min(current_interval, max_interval),
\* multiplies current_interval by backoff_factor and polls again, until a
\* terminal status arrives or elapsed reaches max_duration.
C34_InconclusivePollGoesOn ==
    [][/\ (PollStep /\ poll'.last \notin {"COMPLETED", "SUCCESS", "FAILED", "ERROR",
                                          "completed", "failed"})
           => PollGoesOn
       /\ PollEndsByTimeout]_vars

\* a poll raised after a poll without a status: two waits were made
C34_Witness ==
    /\ epc = "poll"
    /\ poll.last = "raise"
    /\ ecfg.backoff_factor = 2
    /\ poll.current_interval = 4 * ecfg.poll_interval
    /\ poll.elapsed = ecfg.initial_delay + 3 * ecfg.poll_interval
    /\ ecfg.poll_interval > 0

(***************************************************************************)
(* Claims on the recomputed next_execution_at (SpecRecur)                  *)
(***************************************************************************)
\* date and time-of-day of an instant in a timezone
LocalDate(instant, tz) == (instant + UtcOffset(tz)) \div Day

LocalTimeOfDay(instant, tz) == (instant + UtcOffset(tz)) % Day

\* the date that section 4.6 gives for each recurrence, today being the date
\* of the run
ExpectedDate(pattern, today) ==
    CASE pattern = "weekly" -> today + 7
      [] pattern = "weekdays" ->
             CHOOSE d \in (today + 1)..(today + 3) :
                 /\ weekday(d) < 5
                 /\ \A e \in (today + 1)..(d - 1) : weekday(e) >= 5
      [] OTHER -> today + 1

\* the value computed by the last run, read on the clock of the schedule's
\* timezone, in which window_start is a time of day
NextAsSpecified(tz) ==
    LET instant == InstantOf(rlast.next) IN
    /\ rlast.next.set
    /\ instant > rlast.done
    /\ LocalDate(instant, tz) = ExpectedDate(rsched.recurrence_pattern, LocalDate(rlast.done, tz))
    /\ LocalTimeOfDay(instant, tz) = rsched.window_start_time

\* a once schedule whose statistics update was served is not due and not run
OnceIsOver ==
    rlast.served => ~rrun.running /\ ~is_ready(_parse_schedule(rsched), rnow)

\* the same reading on the UTC clock, whatever the schedule's timezone
C35_OnTheUtcClock ==
    rlast.ran =>
        IF rsched.recurrence_pattern = "once"
        THEN ~rlast.next.set /\ OnceIsOver
        ELSE NextAsSpecified("UTC")

\* C35: the next_execution_at computed after a run is null for recurrence
\* once, and then a served update leaves the schedule never due again; for
\* every other recurrence it is an instant strictly later than the instant of
\* the computation, whose date is tomorrow (daily, custom), the next day that
\* is not a Saturday or a Sunday (weekdays) or today plus 7 days (weekly), and
\* whose time of day is window_start, the window being in the schedule's
\* timezone.
C35_NextExecutionAt ==
    rlast.ran =>
        IF rsched.recurrence_pattern = "once"
        THEN ~rlast.next.set /\ OnceIsOver
        ELSE NextAsSpecified(rsched.timezone)

(***************************************************************************)
(* Claims on the runs of a daily schedule (SpecRecur)                      *)
(***************************************************************************)
\* the instant is inside the window of the schedule, on the schedule's clock
InsideWindow(instant) ==
    InWindow(LocalTimeOfDay(instant, rsched.timezone),
             rsched.window_start_time, rsched.window_end_time)

\* the occurrence of the window that holds the instant, numbered by the local
\* date on which the occurrence begins
Occurrence(instant) ==
    IF /\ rsched.window_start_time > rsched.window_end_time
       /\ LocalTimeOfDay(instant, rsched.timezone) <= rsched.window_end_time
    THEN LocalDate(instant, rsched.timezone) - 1
    ELSE LocalDate(instant, rsched.timezone)

\* a daily schedule between two runs, the last statistics update served, at an
\* instant inside its window
DailyAtRest ==
    /\ rsched.recurrence_pattern = "daily"
    /\ rlast.ran /\ rlast.served
    /\ ~rrun.running
    /\ InsideWindow(rnow)

\* C36: a daily schedule whose statistics updates succeed runs exactly once
\* per occurrence of its window: after a run it is not due at any tick inside
\* the occurrence in which it ran, and it is due at every tick inside the
\* occurrence of the next day until it runs.
C36_OncePerOccurrence ==
    DailyAtRest =>
        /\ Occurrence(rnow) = Occurrence(rlast.at) =>
               ~is_ready(_parse_schedule(rsched), rnow)
        /\ Occurrence(rnow) = Occurrence(rlast.at) + 1 =>
               is_ready(_parse_schedule(rsched), rnow)

(***************************************************************************)
(* Claims on the start and stop requests of the scheduler (SpecSched)      *)
(***************************************************************************)
\* a loop task that has not ended and on which cancel() was not called
Uncancelled(t) == Live(t) /\ ~tasks[t].cancel_req

LoopTasks == {t \in 1..Len(tasks) : Uncancelled(t)}

AtMostOneLoop == Cardinality(LoopTasks) <= 1

\* no stop request is suspended: every request has completed
FlagMatchesLoop == stops = {} => (scheduler_running <=> LoopTasks # {})

\* a start that completes leaves a running loop; a stop that completes last
\* leaves none
LastRequestDecides ==
    /\ H_Start => (scheduler_running /\ LoopTasks # {})'
    /\ (H_StopResume \/ (H_StopBegin /\ stops' = stops)) /\ stops' = {} =>
           (~scheduler_running /\ LoopTasks = {})'

\* C38: under any interleaving of the start and stop handlers at most one
\* scheduler loop task is alive at any time, and when no request is pending
\* scheduler_running is true iff a loop task is alive, which is the case iff
\* the last completed request was a start.
C38_OneLoopTask ==
    /\ []AtMostOneLoop
    /\ []FlagMatchesLoop
    /\ [][LastRequestDecides]_vars

(***************************************************************************)
(* Claims on the dry run of an OE batch (SpecBatch)                        *)
(***************************************************************************)
\* what discover_oe_services requires of a ticket: status pending (the query)
\* and remediationState DETECTED (tmf_client.py line 474); the tickets of a
\* batch are in this state before it
Discoverable == [status |-> "pending", state |-> "DETECTED"]

\* the update_service_problem calls for the item that were served
ServedUpdatesOf(id) == {k \in UpdatesOf(id) : spLog[k].fate = "served"}

\* status and remediation_state of the item's ticket now
TicketNow(id) ==
    IF ServedUpdatesOf(id) = {} THEN Discoverable
    ELSE LET last == CHOOSE u \in ServedUpdatesOf(id) : \A v \in ServedUpdatesOf(id) : v <= u
         IN [status |-> spLog[last].status, state |-> spLog[last].state]

\* C39: an OE batch executed with dry_run = true leaves every problem ticket
\* with the status and the remediation_state it had before, so that every
\* item is still returned by the next discovery.
C39_DryRunLeavesTickets ==
    bin.variant = "oe" /\ bin.dry_run /\ bpc = "done" =>
        \A id \in bin.tickets : TicketNow(id) = Discoverable

(***************************************************************************)
(* Claims on the failures inside one tick (SpecTick)                       *)
(***************************************************************************)
TickOver == kpc \in {"returned", "raised"}

ListingFailed == kcalls # <<>> /\ kcalls[1].outcome = "list_failed"

\* the schedules _execute_schedule was called for, in the order of the calls
ExecutedSchedules == [k \in 1..Len(kcalls) |-> kcalls[k].schedule]

\* the records with nothing wrong that are due
DueAndSound == {raw \in RawSchedules : raw.kind = "ok" /\ raw.due}

\* positions of the sound due records among those executed
SoundExecuted ==
    LET Sound(k) == kraw[k].kind = "ok" IN SelectSeq(ExecutedSchedules, Sound)

\* C40: a failure for one due schedule never prevents the others of the same
\* tick: when the listing fails the tick creates no job; a record that cannot
\* be parsed is dropped alone; when creating, locating or executing the job
\* of one due schedule fails, every other due schedule of the tick is still
\* executed, in listing order.
C40_FailuresAreIsolated ==
    TickOver =>
        IF ListingFailed
        THEN created_jobs = <<>> /\ Len(kcalls) = 1
        ELSE /\ kpc = "returned"
             /\ SoundExecuted = Positions(kraw, DueAndSound)
             /\ \A k \in 1..Len(kcalls) : ~ParseRaises(kraw[kcalls[k].schedule])

\* the same for the listings made of sound and of unparseable objects only
C40_AmongObjectsWithNaiveWindows ==
    (\A k \in 1..Len(kraw) : kraw[k].kind \in {"ok", "unparseable"}) => C40_FailuresAreIsolated

\* the same for the listings without an element that is no object
C40_AmongObjects ==
    (\A k \in 1..Len(kraw) : kraw[k].kind # "not_an_object") => C40_FailuresAreIsolated
====
